---------------------------- MODULE Spec2Model ----------------------------
(***************************************************************************)
(* Model of the subtitle translator's resumable translation task:          *)
(* SubtitleTranslator.translate_file (translator.py), its line-by-line,    *)
(* batch, whole-file and multi-model entry loops, and the progress store   *)
(* TranslationProgress (progress.py) with its on-disk progress file.       *)
(*                                                                         *)
(* One behaviour is a sequence of runs of translate_file for one           *)
(* (input file, output file) task.  Between runs the disk persists.        *)
(***************************************************************************)
EXTENDS Integers, Sequences, FiniteSets, TLC

(***************************************************************************)
(* Bounds of the model.                                                    *)
(***************************************************************************)
MaxN == 3          \* largest number of entries of the input file
MaxRuns == 2       \* runs of translate_file in one behaviour
MaxVariant == 2    \* distinct translations the backend may give one text
MaxRetries == 4      \* largest config.max_retries
MaxFiles == 4        \* largest number of input files of one invocation
MaxBatch == 2      \* largest configured batch_size
MaxPipeN == 6       \* largest number of entries handed to the pipeline
MaxFaults == 1      \* backend deviations and write failures followed
MaxBatchN == 5      \* largest input handed to the batch scheduler alone
MaxModels == 3      \* largest number of configured fallback models
MaxFastN == 22      \* largest number of entries handed to the fast path
MaxLines == 2       \* lines of a batch response
MaxMarker == 3      \* largest [n] marker of a response line
MaxAdds == 6        \* calls of add_translated_entry followed
MaxClock == 80      \* seconds of the process followed

(***************************************************************************)
(* Program constants.                                                      *)
(***************************************************************************)
DefaultBatchSize == 10     \* config.py:155  batch_size: int = 10
DefaultOverlapSize == 2    \* config.py:156  overlap_size: int = 2
FastPathThreshold == 5     \* multi_model.py:155  len(entries) > 5
FastBatchSize == 20        \* multi_model.py:347  getattr(..., 'batch_size', 20)
SaveAfter == 30    \* progress.py:189  time_since_save > 30
SaveEvery == 5     \* progress.py:189  current_index % 5 == 0

(***************************************************************************)
(* Strings are sequences of one-character strings, so that formatting and  *)
(* parsing are computed, character by character, as the code does.         *)
(***************************************************************************)
DigitChars == <<"0", "1", "2", "3", "4", "5", "6", "7", "8", "9">>

IsDigit(c) == \E d \in 1..10 : DigitChars[d] = c

DigitVal(c) == (CHOOSE d \in 1..10 : DigitChars[d] = c) - 1

RECURSIVE DecStr(_)
\* str(n) for n >= 0
DecStr(n) ==
    IF n < 10 THEN <<DigitChars[n + 1]>>
    ELSE DecStr(n \div 10) \o <<DigitChars[(n % 10) + 1]>>

RECURSIVE ZeroPad(_, _)
\* f"{n:0wd}": pad on the left with zeros up to width w
ZeroPad(s, w) == IF Len(s) >= w THEN s ELSE ZeroPad(<<"0">> \o s, w)

\* int(s) succeeds: a non-empty run of digits (the strings of the model hold
\* digits, separators and letters only)
IsInt(s) == Len(s) > 0 /\ \A i \in 1..Len(s) : IsDigit(s[i])

RECURSIVE IntOf(_)
IntOf(s) ==
    IF Len(s) = 0 THEN 0
    ELSE 10 * IntOf(SubSeq(s, 1, Len(s) - 1)) + DigitVal(s[Len(s)])

RECURSIVE Split(_, _)
\* s.split(sep) for a one-character separator
Split(s, sep) ==
    IF \A i \in 1..Len(s) : s[i] # sep THEN <<s>>
    ELSE LET k == CHOOSE i \in 1..Len(s) :
                      s[i] = sep /\ \A j \in 1..(i - 1) : s[j] # sep
         IN  <<SubSeq(s, 1, k - 1)>> \o Split(SubSeq(s, k + 1, Len(s)), sep)

RECURSIVE Ljust(_, _)
\* s.ljust(w, '0')
Ljust(s, w) == IF Len(s) >= w THEN s ELSE Ljust(s \o <<"0">>, w)

(***************************************************************************)
(* A timedelta is a number of microseconds.                                *)
(***************************************************************************)
\* TranslationProgress._timedelta_to_str: "HH:MM:SS,mmm"
TimedeltaToStr(td) ==
    LET total_seconds == td \div 1000000
        hours         == total_seconds \div 3600
        minutes       == (total_seconds % 3600) \div 60
        seconds       == total_seconds % 60
        milliseconds  == (td % 1000000) \div 1000
    IN  ZeroPad(DecStr(hours), 2) \o <<":">> \o ZeroPad(DecStr(minutes), 2)
          \o <<":">> \o ZeroPad(DecStr(seconds), 2) \o <<",">>
          \o ZeroPad(DecStr(milliseconds), 3)

\* seconds.ljust-ed fraction of _parse_timedelta: sec_parts[1].ljust(6, '0')[:6]
Fraction(sec_parts) ==
    IF Len(sec_parts) > 1 THEN SubSeq(Ljust(sec_parts[2], 6), 1, 6) ELSE <<"0">>

\* TranslationProgress._parse_timedelta reaches its return statement: the
\* string has three ':'-separated parts, "H", "MM" and "SS" or "SS.ffffff",
\* each an integer; otherwise an IndexError or ValueError is raised inside
TimedeltaParses(time_str) ==
    LET parts == Split(time_str, ":")
    IN  /\ Len(parts) >= 3
        /\ IsInt(parts[1]) /\ IsInt(parts[2])
        /\ LET sec_parts == Split(parts[3], ".")
           IN  IsInt(sec_parts[1]) /\ IsInt(Fraction(sec_parts))

\* TranslationProgress._parse_timedelta: the exception raised inside is
\* logged and timedelta(0) returned
ParseTimedelta(time_str) ==
    IF ~TimedeltaParses(time_str) THEN 0
    ELSE LET parts     == Split(time_str, ":")
             sec_parts == Split(parts[3], ".")
         IN  (IntOf(parts[1]) * 3600 + IntOf(parts[2]) * 60
                + IntOf(sec_parts[1])) * 1000000 + IntOf(Fraction(sec_parts))

(***************************************************************************)
(* Entries.  A text is a pair <<i, v>>: the text of input entry i in the   *)
(* source language (v = 0) or a translation of it: v = 1 is the one the    *)
(* backend gives when it translates the text for the first time, v >= 2    *)
(* are the different ones it may give when a later batch holds the text    *)
(* again as an overlap entry.                                              *)
(* NoText is Python's None.  The field gen is not a field of the program:  *)
(* it records which run of translate_file produced the entry.              *)
(***************************************************************************)
NoText == <<>>

Variants == 1..MaxVariant

\* SRTParser._parse_timestamp: millisecond precision
ParseTimestamp(ms) == ms * 1000

StartMs(i) == 1500 * i + 250
EndMs(i)   == StartMs(i) + 1200

\* SRTParser._parse_block: the i-th parsed entry of the input file
ParsedEntry(i) ==
    [index |-> i, start_time |-> ParseTimestamp(StartMs(i)),
     end_time |-> ParseTimestamp(EndMs(i)),
     text |-> <<i, 0>>, original_text |-> NoText, gen |-> 0]

\* SRTParser.parse_content: the entry list of an input file of n entries
ParseContent(n) == [i \in 1..n |-> ParsedEntry(i)]

\* SubtitleEntry(index=entry.index, start_time=..., end_time=...,
\*               text=translated_text, original_text=entry.text)
TranslatedEntry(entry, translated_text, g) ==
    [index |-> entry.index, start_time |-> entry.start_time,
     end_time |-> entry.end_time, text |-> translated_text,
     original_text |-> entry.text, gen |-> g]

\* the entry without the run that produced it
Plain(e) == [index |-> e.index, start_time |-> e.start_time,
             end_time |-> e.end_time, text |-> e.text,
             original_text |-> e.original_text]

PlainList(es) == [k \in 1..Len(es) |-> Plain(es[k])]


(***************************************************************************)
(* The progress file.  A file on disk is a record: exists (the path is     *)
(* there), valid (its bytes are one complete JSON object), fields (the     *)
(* keys of that object) and the values the program reads.  A serialized    *)
(* entry carries keys, the set of keys its dictionary holds.               *)
(***************************************************************************)
InputPath  == "movie.srt"
OutputPath == "movie.hu.srt"
OtherPath  == "other/movie.srt"

RequiredFields == {"input_file", "output_file", "current_index",
                   "total_entries", "translated_entries", "timestamp"}

EntryKeys == {"index", "start_time", "end_time", "text", "original_text"}

NoFile == [exists |-> FALSE, valid |-> FALSE, fields |-> {},
           input_file |-> "", output_file |-> "", current_index |-> 0,
           total_entries |-> 0, translated_entries |-> <<>>]

\* open(progress_file, "w") has truncated the file and json.dump has not
\* finished: the bytes on disk are not a complete JSON object
TruncatedFile == [NoFile EXCEPT !.exists = TRUE]

\* TranslationProgress._entry_to_dict
EntryToDict(e) ==
    [keys |-> EntryKeys, index |-> e.index,
     start_time |-> TimedeltaToStr(e.start_time),
     end_time |-> TimedeltaToStr(e.end_time),
     text |-> e.text, original_text |-> e.original_text, gen |-> e.gen]

\* The progress_data dictionary save_progress dumps, as a complete file
ProgressData(cur, total, entries) ==
    [exists |-> TRUE, valid |-> TRUE,
     fields |-> RequiredFields \cup {"start_time"},
     input_file |-> InputPath, output_file |-> OutputPath,
     current_index |-> cur, total_entries |-> total,
     translated_entries |-> [k \in 1..Len(entries) |-> EntryToDict(entries[k])]]

\* The SubtitleEntry load_progress builds from one serialized entry
EntryFromDict(d) ==
    [index |-> d.index, start_time |-> ParseTimedelta(d.start_time),
     end_time |-> ParseTimedelta(d.end_time), text |-> d.text,
     original_text |-> d.original_text, gen |-> d.gen]

\* entry_data[...] raises KeyError
LacksKey(d) == ~({"index", "start_time", "end_time", "text"} \subseteq d.keys)

\* TranslationProgress.load_progress on file f, the store holding (cur, total,
\* entries): the value returned (ok) and the state of the store afterwards.
\* Every exception is caught and turned into False, after whatever
\* assignments were made before it was raised.
LoadProgress(f, cur, total, entries) ==
    LET same == [ok |-> FALSE, current_index |-> cur, total_entries |-> total,
                 translated_entries |-> entries]
        ds   == f.translated_entries
        bad  == {k \in 1..Len(ds) : LacksKey(ds[k])}
        upto == IF bad = {} THEN Len(ds)
                ELSE (CHOOSE k \in bad : \A j \in bad : k <= j) - 1
    IN  IF ~f.exists THEN same
        ELSE IF ~f.valid THEN same
        ELSE IF ~(RequiredFields \subseteq f.fields) THEN same
        ELSE IF f.input_file # InputPath \/ f.output_file # OutputPath THEN same
        ELSE [ok |-> (bad = {}),
              current_index |-> f.current_index,
              total_entries |-> f.total_entries,
              translated_entries |-> [k \in 1..upto |-> EntryFromDict(ds[k])]]

(***************************************************************************)
(* Progress files left at the task's progress path by something other than *)
(* this task's save_progress: the path is built from the two file stems    *)
(* only, so another task (other directory, same stems) or another version  *)
(* of the program can have written it.                                     *)
(***************************************************************************)
SampleEntries == [k \in 1..2 |-> TranslatedEntry(ParsedEntry(k), <<k, 1>>, 0)]

SampleFile == ProgressData(2, 3, SampleEntries)

ForeignFiles ==
    { [SampleFile EXCEPT !.input_file = OtherPath],
      [SampleFile EXCEPT !.fields = RequiredFields \ {"timestamp"}],
      [SampleFile EXCEPT !.translated_entries[2].keys = EntryKeys \ {"text"}],
      [SampleFile EXCEPT !.translated_entries[1].start_time = <<"x">>] }

(***************************************************************************)
(* Configuration of the task.                                              *)
(***************************************************************************)
Modes == {"line-by-line", "batch", "whole-file", "multi-model"}

\* Config.__post_init__: batch_size >= 1, 0 <= overlap_size < batch_size
\* (reassess_overlaps is read for overlap entries only: without overlap its
\* default stands for both values)
BatchConfigs ==
    {bc \in [batch_size : 1..MaxBatch, overlap_size : 0..MaxBatch,
             reassess_overlaps : BOOLEAN] :
        /\ bc.overlap_size < bc.batch_size
        /\ bc.overlap_size = 0 => bc.reassess_overlaps}

DefaultBatch == [batch_size |-> 1, overlap_size |-> 0, reassess_overlaps |-> TRUE]

Configs ==
    {c \in [mode : Modes, batch : BatchConfigs] :
        c.mode # "batch" => c.batch = DefaultBatch}


(***************************************************************************)
(* State.                                                                  *)
(***************************************************************************)
VARIABLES
    inputN,             \* disk: entries of the input file (0: missing or none valid)
    pfile,              \* disk: the progress file
    ofile,              \* disk: the output file as written by the latest run,
                        \* [exists, entries]; no step reads it
    cfg,                \* the task's configuration, [mode, batch]
    resume,             \* translate_file's resume argument of this run
    run,                \* number of runs of translate_file started
    pc,                 \* position of the running process
    ret,                \* position to continue at when save_progress returns
    current_index,      \* progress.current_index
    total_entries,      \* progress.total_entries
    translated_entries, \* progress.translated_entries
    late,               \* now - progress.last_save_time > 30 s
    start_index,        \* translate_file's start_index
    local,              \* the entry loop's own translated_entries list
    i,                  \* the entry loop's position
    batch_start,        \* _translate_entries_batch's cursor
    processed_indices,  \* _translate_entries_batch's processed_indices
    resp,               \* the variants translate_batch returned for full_batch
    loadResult,         \* history: what load_progress returned in this run
    discarded,          \* history: this run discarded mismatching progress
    reassessed,         \* history: entry index -> text of its last reassessment
    requests,           \* history: batch_start, overlap_start, batch_end and
                        \* full_batch of each pass of this call of the scheduler
    plain,              \* history: every run so far resumed, was answered with
                        \* variant 1 by the backend and ended done or interrupted
    \* translate_with_retry (OllamaClient, MarianClient)
    client,             \* the client whose translate_with_retry is called
    max_retries,        \* config.max_retries
    attempt,            \* the loop variable of translate_with_retry
    last_error,         \* translate_with_retry's last_error
    retry_pc,           \* "idle", "loop", "returned" or "raised"
    outcome,            \* what translate_with_retry returned or raised
    calls,              \* history: the outcomes of the translate_text calls
    \* the loop over several input files (main, batch_translate)
    caller,             \* "main" or "batch_translate"
    files,              \* number of input files found
    file_pos,           \* number of files the loop has gone past
    files_pc,           \* "idle", "loop", "completed" or "error"
    attempted,          \* history: how translate_file ended for each file
                        \* it was called for
    \* main's construction of the configuration
    yaml,               \* the processing section of config.yaml, if the file exists
    args,               \* the parsed --batch-size and --overlap-size
    cli_pc,             \* "idle", "start", "loaded", "config_error", "ready",
                        \* "scheduling" or "done"
    passes,             \* scheduling passes made by _translate_entries_batch
    \* the multi-model pipeline (MultiModelOrchestrator)
    pipeline,           \* multi_config.pipeline: the run_* and skip_* flags
    entriesN,           \* len(entries) handed to translate_with_multimodel
    srt_results,        \* the result structure in memory
    result_file,        \* output/multi_model_results/<stem>_results.json
    pipe_pc,            \* position inside translate_with_multimodel
    entry_pos,          \* index of the entry being processed (0: none yet)
    fast_end,           \* last index of the current fast batch
    translation_result, \* the TranslationResult handed from stage to stage
    added,              \* calls of progress.add_translated_entry in this run
    pipe_runs,          \* runs of the pipeline on this input file so far
    save_failed,        \* history: a write of the result file failed in
                        \* this run
    faults,             \* backend deviations and write failures so far
    \* the recovery of one entry whose translation fails
    site,               \* "line-by-line" or "batch" (the per-entry fallback)
    fallback_models,    \* len(config.fallback_models)
    model_pos,          \* position in models_to_try of translate_with_fallback
    rec_pc,             \* "idle", "primary", "fallback", "committed"
    ops,                \* history: what was done for the entry, in order
    committed,          \* "none", "translated" or "original"
    \* the construction of SubtitleTranslator
    translation_backend, \* config.translation_backend
    ollama_up,          \* what ollama_client.is_available() answers
    model_listed,       \* config.model is among get_available_models()
    ctor_pc,            \* "idle", "new", "constructed", "raised", "dispatched"
    dispatched,         \* the branch translate_file took, "none" before
    \* the save cadence of TranslationProgress.add_translated_entry
    clock,              \* datetime.now(), seconds since the process started
    last_save_time,     \* progress.last_save_time
    saved_at,           \* history: the clock at the latest save_progress
                        \* (at the construction before the first one)
    cur_index,          \* progress.current_index
    entry_count,        \* len(progress.translated_entries)
    file_index,         \* current_index in the progress file (-1: no file)
    last_call,          \* history: the latest call of add_translated_entry
    \* MultiModelOrchestrator._parse_batch_response
    original_batch,     \* the indices of the entries of the batch, in order
    response,           \* the lines of the model's response
    index_to_translation, \* marker -> text, "" for no key
    translations,       \* the list returned
    parse_pc,
    \* the story context of the orchestrator
    story_context,      \* self.story_context: "none", "empty" or "analyzed"
    context_queries     \* history: context-model queries issued for the
                        \* file being processed

progVars == <<inputN, pfile, ofile, cfg, resume, run, pc, ret, current_index,
              total_entries, translated_entries, late, start_index, local, i,
              batch_start, processed_indices, resp, loadResult, discarded,
              reassessed, requests, plain>>

retryVars == <<client, max_retries, attempt, last_error, retry_pc, outcome,
               calls>>

\* what translate_file and the progress store never touch
filesVars == <<caller, files, file_pos, files_pc, attempted>>

cliVars == <<yaml, args, cli_pc, passes>>

ctxVars == <<story_context, context_queries>>

pipeVars == <<ctxVars, pipeline, entriesN, srt_results, result_file, pipe_pc,
              entry_pos,              fast_end, translation_result, added, pipe_runs, save_failed,
              faults>>

recVars == <<site, fallback_models, model_pos, rec_pc, ops, committed>>

ctorVars == <<translation_backend, ollama_up, model_listed, ctor_pc,
               dispatched>>

cadVars == <<clock, last_save_time, saved_at, cur_index, entry_count,
              file_index, last_call>>

parseVars == <<original_batch, response, index_to_translation, translations,
                parse_pc>>

extVars == <<recVars, ctorVars, cadVars, parseVars>>

auxVars == <<retryVars, filesVars, cliVars, pipeVars, extVars>>

vars == <<progVars, auxVars>>

diskVars  == <<inputN, pfile, ofile>>
storeVars == <<current_index, total_entries, translated_entries>>
loopVars  == <<local, i, batch_start, processed_indices, resp>>
histVars  == <<loadResult, discarded, reassessed, requests, plain>>

NoOutput == [exists |-> FALSE, entries |-> <<>>]

EmptyMap == [k \in {} |-> NoText]

Terminal == {"idle", "done", "failed", "exited", "crashed"}

Running == {"parse", "resume", "init", "line-by-line", "batch", "batch_proc",
            "batch_fb", "multi-model", "whole-file", "write", "cleanup",
            "except", "add_inc", "saving"}

\* no call of translate_with_retry is under way
NoError == [kind |-> "None", attempt |-> 0]

RetryIdle ==
    /\ client = "ollama"
    /\ max_retries = 3
    /\ attempt = 0
    /\ last_error = NoError
    /\ retry_pc = "idle"
    /\ outcome = NoError
    /\ calls = <<>>

FilesIdle ==
    /\ caller = "main"
    /\ files = 1
    /\ file_pos = 0
    /\ files_pc = "idle"
    /\ attempted = <<>>

\* an int option that was not given on the command line (None)
NotGiven == [given |-> FALSE, value |-> 0]

NoYaml == [exists |-> FALSE, batch_size |-> 0, overlap_size |-> 0]

CliIdle ==
    /\ yaml = NoYaml
    /\ args = [batch_size |-> NotGiven, overlap_size |-> NotGiven]
    /\ cli_pc = "idle"
    /\ passes = 0

\* one stage sub-record of an entry: absent, skipped with a reason, or
\* recorded with the stage's text and confidence (in tenths)
NoStage == [state |-> "absent", reason |-> "", text |-> "", confidence |-> 0]

Skipped(reason) ==
    [state |-> "skipped", reason |-> reason, text |-> "", confidence |-> 0]

Recorded(text, confidence) ==
    [state |-> "recorded", reason |-> "", text |-> text,
     confidence |-> confidence]

Stages ==
    {"step1_context", "step2_translation", "step3_validation",
     "step4_dialogue", "final_result"}

\* the entry keys srt_results["entries"] can hold
MaxEntries == IF MaxFastN > MaxPipeN THEN MaxFastN ELSE MaxPipeN

\* no key entry_<index> in srt_results["entries"]
NoEntry ==
    [present |-> FALSE, step1_context |-> NoStage,
     step2_translation |-> NoStage, step3_validation |-> NoStage,
     step4_dialogue |-> NoStage, final_result |-> NoStage]

\* srt_results as translate_with_multimodel (multi_model.py:168-176) and
\* _translate_entries_batch_fast (multi_model.py:356-365) create it
FreshResults(mode) ==
    [mode |-> mode, step1_context_analysis |-> FALSE,
     processing_complete |-> FALSE,
     entries |-> [e \in 1..MaxEntries |-> NoEntry]]

NoResultFile == [exists |-> FALSE, content |-> FreshResults("pipeline")]

NoResult == [text |-> "", confidence |-> 0]

AllStages ==
    [run_context_analysis |-> TRUE, run_translation |-> TRUE,
     run_validation |-> TRUE, run_dialogue_refinement |-> TRUE,
     skip_validation_for_high_confidence |-> FALSE]

PipeIdle ==
    /\ pipeline = AllStages
    /\ entriesN = 1
    /\ srt_results = FreshResults("pipeline")
    /\ result_file = NoResultFile
    /\ pipe_pc = "idle"
    /\ entry_pos = 0
    /\ fast_end = 0
    /\ translation_result = NoResult
    /\ added = 0
    /\ pipe_runs = 0
    /\ save_failed = FALSE
    /\ faults = 0
    /\ story_context = "none"
    /\ context_queries = 0

RecoveryIdle ==
    /\ site = "line-by-line"
    /\ fallback_models = 0
    /\ model_pos = 0
    /\ rec_pc = "idle"
    /\ ops = <<>>
    /\ committed = "none"

CtorIdle ==
    /\ translation_backend = "ollama"
    /\ ollama_up = TRUE
    /\ model_listed = TRUE
    /\ ctor_pc = "idle"
    /\ dispatched = "none"

NoCall == [made |-> FALSE, index |-> 0, since_save |-> 0, saved |-> FALSE]

\* TranslationProgress.__init__ (progress.py:32-37)
CadenceIdle ==
    /\ clock = 0
    /\ last_save_time = 0
    /\ saved_at = 0
    /\ cur_index = 0
    /\ entry_count = 0
    /\ file_index = 0 - 1
    /\ last_call = NoCall

\* the markers a response line can carry: 0 for a line that is not of the
\* form "[n] ..." with n an integer
Markers == 0..MaxMarker

NoTranslations == [n \in Markers |-> ""]

ParseIdle ==
    /\ original_batch = <<>>
    /\ response = <<>>
    /\ index_to_translation = NoTranslations
    /\ translations = <<>>
    /\ parse_pc = "idle"

ExtIdle == RecoveryIdle /\ CtorIdle /\ CadenceIdle /\ ParseIdle

\* translate_file has not been called: no progress file, no output, and
\* the store as TranslationProgress.__init__ leaves it
ProcessIdle ==
    /\ pfile = NoFile
    /\ ofile = NoOutput
    /\ resume = TRUE
    /\ run = 0
    /\ pc = "idle"
    /\ ret = "idle"
    /\ current_index = 0
    /\ total_entries = 0
    /\ translated_entries = <<>>
    /\ late = FALSE
    /\ start_index = 0
    /\ local = <<>>
    /\ i = 0
    /\ batch_start = 0
    /\ processed_indices = {}
    /\ resp = <<>>
    /\ loadResult = "none"
    /\ discarded = FALSE
    /\ reassessed = EmptyMap
    /\ requests = <<>>
    /\ plain = TRUE

\* no translation task is running, for an input of one entry and the
\* line-by-line configuration
TaskIdle ==
    /\ inputN = 1
    /\ cfg = [mode |-> "line-by-line", batch |-> DefaultBatch]
    /\ ProcessIdle

Init ==
    /\ RetryIdle
    /\ FilesIdle
    /\ CliIdle
    /\ PipeIdle
    /\ ExtIdle
    /\ inputN \in 1..MaxN
    /\ cfg \in Configs
    /\ ProcessIdle

(***************************************************************************)
(* The environment, and the start and the end of a run.                    *)
(***************************************************************************)
\* Before the task's first run something else has written a file at the
\* task's progress path
ForeignProgress ==
    /\ pc = "idle" /\ run = 0 /\ ~pfile.exists
    /\ pfile' \in ForeignFiles
    /\ plain' = FALSE
    /\ UNCHANGED <<inputN, ofile, cfg, auxVars, resume, run, pc, ret, storeVars, late,
                   start_index, loopVars, loadResult, discarded, reassessed, requests>>

\* main calls translate_file(input, output, resume): TranslationProgress(...)
\* is constructed (empty store, signal handlers installed).  Since the last
\* run the user may have edited the input file (one entry less, or, of a
\* single entry, none left).
StartRun ==
    /\ pc \in Terminal /\ run < MaxRuns
    /\ run' = run + 1
    /\ resume' \in BOOLEAN
    /\ inputN' \in {inputN} \cup (IF run > 0 THEN {inputN - 1} ELSE {})
    /\ pc' = "parse"
    /\ plain' = (plain /\ resume' /\ inputN' = inputN
                   /\ cfg.mode \in {"line-by-line", "batch"})
    /\ ofile' = NoOutput
    /\ UNCHANGED <<pfile, cfg, auxVars, ret, storeVars, late, start_index,
                   loopVars, loadResult, discarded, reassessed, requests>>

\* The process ends in p: its memory is gone, the disk stays
Halt(p) ==
    /\ pc' = p
    /\ ret' = "idle"
    /\ resume' = TRUE
    /\ current_index' = 0
    /\ total_entries' = 0
    /\ translated_entries' = <<>>
    /\ late' = FALSE
    /\ start_index' = 0
    /\ local' = <<>> /\ i' = 0 /\ batch_start' = 0
    /\ processed_indices' = {} /\ resp' = <<>>
    /\ loadResult' = "none"
    /\ discarded' = FALSE
    /\ reassessed' = EmptyMap
    /\ requests' = <<>>

(***************************************************************************)
(* save_progress: open(progress_file, "w") truncates the file, json.dump   *)
(* then writes the new content.                                            *)
(***************************************************************************)
BeginSave(retpc) ==
    /\ pfile' = TruncatedFile
    /\ pc' = "saving"
    /\ ret' = retpc

SaveFinish ==
    /\ pc = "saving"
    /\ pfile' = ProgressData(current_index, total_entries, translated_entries)
    /\ IF ret \in Terminal
         THEN Halt(ret)
         ELSE /\ pc' = ret
              /\ UNCHANGED <<resume, ret, storeVars, late, start_index,
                             loopVars, loadResult, discarded, reassessed, requests>>
    /\ UNCHANGED <<inputN, ofile, cfg, auxVars, run, plain>>

\* TranslationProgress.is_complete
IsComplete(cur, total) == cur >= total


(***************************************************************************)
(* translate_file, up to the dispatch on the mode.                         *)
(***************************************************************************)
\* entries[start:] of the parsed input
Slice(n, start) ==
    IF start >= n THEN <<>> ELSE [k \in 1..(n - start) |-> ParsedEntry(start + k)]

\* the backend's v-th translation of a text
Translation(text, v) == <<text[1], v>>

\* self.parser.parse_file(input_path): FileNotFoundError, or ValueError when
\* no valid entry is found
ParseInput ==
    /\ pc = "parse"
    /\ pc' = IF inputN = 0 THEN "except" ELSE "resume"
    /\ UNCHANGED <<diskVars, cfg, auxVars, resume, run, ret, storeVars, late,
                   start_index, loopVars, histVars>>

\* (mutant) the loaded entries are kept when the entry counts differ
EntriesKeptOnMismatch(loaded) == loaded

\* translator.py:94  progress.translated_entries = []  on an entry count mismatch
EntriesAfterMismatch(loaded) == <<>>

\* translator.py:80-98: load existing progress, discard it on a mismatch
CheckResume ==
    /\ pc = "resume"
    /\ IF resume /\ pfile.exists
         THEN LET r == LoadProgress(pfile, current_index, total_entries,
                                    translated_entries)
              IN  /\ loadResult' = IF r.ok THEN "True" ELSE "False"
                  /\ total_entries' = r.total_entries
                  /\ IF r.ok /\ r.total_entries # inputN
                       THEN /\ start_index' = 0
                            /\ translated_entries' =
                                   EntriesAfterMismatch(r.translated_entries)
                            /\ current_index' = 0
                            /\ discarded' = TRUE
                       ELSE /\ start_index' = IF r.ok THEN r.current_index ELSE 0
                            /\ translated_entries' = r.translated_entries
                            /\ current_index' = r.current_index
                            /\ discarded' = FALSE
         ELSE /\ loadResult' = "none"
              /\ start_index' = 0
              /\ discarded' = FALSE
              /\ UNCHANGED storeVars
    /\ pc' = "init"
    /\ UNCHANGED <<diskVars, cfg, auxVars, resume, run, ret, late, loopVars,
                   reassessed, requests, plain>>

\* translator.py:100 progress.initialize_translation(total_entries), and the
\* dispatch of lines 109-128 on the mode
InitializeTranslation ==
    /\ pc = "init"
    /\ total_entries' = inputN
    /\ IF ~pfile.exists
         THEN BeginSave(cfg.mode)
         ELSE pc' = cfg.mode /\ UNCHANGED <<pfile, ret>>
    /\ UNCHANGED <<inputN, ofile, cfg, auxVars, resume, run, current_index,
                   translated_entries, late, start_index, loopVars, histVars>>

(***************************************************************************)
(* add_translated_entry(entry): the append is made by the step that        *)
(* commits the entry (Commit), the increment and the periodic save by      *)
(* AddIncrement.                                                           *)
(***************************************************************************)
\* translated_entries.append(e); progress.add_translated_entry(e), up to
\* progress.translated_entries.append(e)
Commit(e, retpc) ==
    /\ local' = Append(local, e)
    /\ translated_entries' = Append(translated_entries, e)
    /\ pc' = "add_inc"
    /\ ret' = retpc

\* progress.py:185-190; last_save_time is set at construction only, so once
\* 30 seconds have passed since then they have passed at every later call
AddIncrement ==
    /\ pc = "add_inc"
    /\ current_index' = current_index + 1
    /\ \E elapsed \in BOOLEAN : late' = (late \/ elapsed)
    /\ IF (current_index + 1) % SaveEvery = 0 \/ late'
         THEN BeginSave(ret)
         ELSE pc' = ret /\ UNCHANGED <<pfile, ret>>
    /\ UNCHANGED <<inputN, ofile, cfg, auxVars, resume, run, total_entries,
                   translated_entries, start_index, loopVars, histVars>>

(***************************************************************************)
(* _translate_entries_line_by_line(entries[start_index:], progress, ...)   *)
(***************************************************************************)
\* (mutant) an entry whose translation attempts all failed loses its text
BlankedOnFailure(entry) == [entry EXCEPT !.text = NoText, !.gen = run]

\* translator.py:209-214: all attempts failed, translated_entries.append(entry)
KeptAsFallback(entry) == [entry EXCEPT !.gen = run]

\* One iteration: translate_with_retry, then translate_with_fallback, succeed
\* with some translation (v) or all fail and the original entry is kept
LineStep ==
    /\ pc = "line-by-line"
    /\ i < Len(Slice(inputN, start_index))
    /\ LET entry == Slice(inputN, start_index)[i + 1]
       IN  \/ /\ Commit(TranslatedEntry(entry, Translation(entry.text, 1), run),
                        "line-by-line")
              /\ plain' = plain
           \/ /\ Commit(KeptAsFallback(entry), "line-by-line")
              /\ plain' = FALSE
    /\ i' = i + 1
    /\ UNCHANGED <<diskVars, cfg, auxVars, resume, run, current_index, total_entries,
                   late, start_index, batch_start, processed_indices, resp,
                   loadResult, discarded, reassessed, requests>>

\* translator.py:126-128: progress.translated_entries.extend(<returned list>)
LineReturn ==
    /\ pc = "line-by-line"
    /\ i >= Len(Slice(inputN, start_index))
    /\ translated_entries' = translated_entries \o local
    /\ pc' = "write"
    /\ UNCHANGED <<diskVars, cfg, auxVars, resume, run, ret, current_index,
                   total_entries, late, start_index, loopVars, histVars>>


(***************************************************************************)
(* _translate_entries_batch(entries[start_index:], progress, start_index)  *)
(* Positions are 0-based as in the code; sequences are 1-based.            *)
(***************************************************************************)
Min(a, b) == IF a < b THEN a ELSE b
Max(a, b) == IF a > b THEN a ELSE b

\* translator.py:258
BatchEnd(start, total) == Min(start + cfg.batch.batch_size, total)

\* (mutant) the overlap reaches one entry further back
OverlapStartOffByOne(start) ==
    IF start > 0 THEN Max(0, start - cfg.batch.overlap_size - 1) ELSE start

\* translator.py:261
OverlapStart(start) ==
    IF start > 0 THEN Max(0, start - cfg.batch.overlap_size) ELSE start

\* (mutant) the request holds the new entries only, without the overlap
FullBatchNewOnly(start) ==
    LET slice == Slice(inputN, start_index)
    IN  [k \in 1..(BatchEnd(start, Len(slice)) - start) |->
            slice[start + k].index]

\* translator.py:265  full_batch = entries[overlap_start:overlap_end], as
\* the indices of its entries
FullBatch(start) ==
    LET slice == Slice(inputN, start_index)
        first == OverlapStart(start)
    IN  [k \in 1..(BatchEnd(start, Len(slice)) - first) |->
            slice[first + k].index]

\* translator.py:257-265: what one pass of the while loop computes
BatchPass(start) ==
    [batch_start |-> start,
     overlap_start |-> OverlapStart(start),
     batch_end |-> BatchEnd(start, Len(Slice(inputN, start_index))),
     full_batch |-> FullBatch(start)]

\* translator.py:283 translate_batch(batch_texts, batch_context): one text per
\* text of full_batch, or an exception
BatchRequest ==
    /\ pc = "batch"
    /\ batch_start < Len(Slice(inputN, start_index))
    /\ LET total == Len(Slice(inputN, start_index))
           n     == BatchEnd(batch_start, total) - OverlapStart(batch_start)
           ov    == batch_start - OverlapStart(batch_start)
       IN  \/ /\ resp' \in {r \in [1..n -> Variants] :
                                \A k \in (ov + 1)..n : r[k] = 1}
              /\ pc' = "batch_proc"
              /\ plain' = (plain /\ \A k \in 1..n : resp'[k] = 1)
           \/ /\ resp' = <<>>
              /\ pc' = "batch_fb"
              /\ plain' = FALSE
    /\ requests' = Append(requests, BatchPass(batch_start))
    /\ i' = 0
    /\ UNCHANGED <<diskVars, cfg, auxVars, resume, run, ret, storeVars, late,
                   start_index, local, batch_start, processed_indices,
                   loadResult, discarded, reassessed>>

\* translator.py:302-308: the committed list after an overlap entry's new
\* translation te has been compared with the committed one
Reassess(list, te) ==
    LET hit == {k \in 1..Len(list) : list[k].index = te.index}
    IN  IF hit = {} THEN list
        ELSE LET k0 == CHOOSE k \in hit : \A j \in hit : k <= j
             IN  IF te.text # list[k0].text THEN [list EXCEPT ![k0] = te]
                 ELSE list

\* (mutant) an overlap entry is reassessed whatever reassess_overlaps says
ReassessesWhateverConfig(entry_index) == entry_index \in processed_indices

\* translator.py:300  if self.config.reassess_overlaps and entry_index in
\* processed_indices
ShouldReassess(entry_index) ==
    cfg.batch.reassess_overlaps /\ entry_index \in processed_indices

\* translator.py:286-316: one iteration over zip(full_batch, translated_texts)
BatchProcess ==
    /\ pc = "batch_proc"
    /\ i < Len(resp)
    /\ LET slice        == Slice(inputN, start_index)
           entry_index  == OverlapStart(batch_start) + i
           entry        == slice[entry_index + 1]
           te           == TranslatedEntry(entry,
                               Translation(entry.text, resp[i + 1]), run)
       IN  IF entry_index < batch_start
             THEN /\ IF ShouldReassess(entry_index)
                       THEN /\ local' = Reassess(local, te)
                            /\ reassessed' =
                                 IF local' # local
                                   THEN (entry.index :> te.text) @@ reassessed
                                   ELSE reassessed
                       ELSE UNCHANGED <<local, reassessed>>
                  /\ UNCHANGED <<translated_entries, pc, ret, processed_indices>>
             ELSE /\ IF entry_index \notin processed_indices
                       THEN /\ Commit(te, "batch_proc")
                            /\ processed_indices' =
                                   processed_indices \cup {entry_index}
                       ELSE UNCHANGED <<local, translated_entries, pc, ret,
                                        processed_indices>>
                  /\ UNCHANGED reassessed
    /\ i' = i + 1
    /\ UNCHANGED <<diskVars, cfg, auxVars, resume, run, current_index, total_entries,
                   late, start_index, batch_start, resp, loadResult,
                   discarded, requests, plain>>

\* (mutant) the per-entry fallback leaves out the first new entry
NewEntriesSkipFirst(start) == start + 1

\* (mutant) the per-entry fallback goes over the whole batch, overlap included
FallbackFromOverlap(start) == OverlapStart(start)

\* translator.py:267  new_entries = entries[batch_start:batch_end]: the
\* position of the first entry of the per-entry fallback
NewEntriesStart(start) == start

\* translator.py:321-346: one iteration of the per-entry fallback over
\* new_entries after translate_batch raised: translate_with_retry returns a
\* translation, or raises and the entry is kept as parsed
BatchFallback ==
    /\ pc = "batch_fb"
    /\ LET slice       == Slice(inputN, start_index)
           entry_index == NewEntriesStart(batch_start) + i
           entry       == slice[entry_index + 1]
       IN  /\ entry_index < BatchEnd(batch_start, Len(slice))
           /\ \E e \in {TranslatedEntry(entry, Translation(entry.text, 1), run),
                        [entry EXCEPT !.gen = run]} :
                 IF entry_index \notin processed_indices
                   THEN /\ Commit(e, "batch_fb")
                        /\ processed_indices' =
                               processed_indices \cup {entry_index}
                   ELSE UNCHANGED <<local, translated_entries, pc, ret,
                                    processed_indices>>
    /\ i' = i + 1
    /\ UNCHANGED <<diskVars, cfg, auxVars, resume, run, current_index, total_entries,
                   late, start_index, batch_start, resp, histVars>>

\* translator.py:349  batch_start = batch_end
BatchAdvance ==
    /\ \/ pc = "batch_proc" /\ i >= Len(resp)
       \/ /\ pc = "batch_fb"
          /\ NewEntriesStart(batch_start) + i >=
                 BatchEnd(batch_start, Len(Slice(inputN, start_index)))
    /\ batch_start' = BatchEnd(batch_start, Len(Slice(inputN, start_index)))
    /\ pc' = "batch"
    /\ UNCHANGED <<diskVars, cfg, auxVars, resume, run, ret, storeVars, late,
                   start_index, local, i, processed_indices, resp, histVars>>

\* translator.py:114-116: progress.translated_entries.extend(<returned list>)
BatchReturn ==
    /\ pc = "batch"
    /\ batch_start >= Len(Slice(inputN, start_index))
    /\ translated_entries' = translated_entries \o local
    /\ pc' = "write"
    /\ UNCHANGED <<diskVars, cfg, auxVars, resume, run, ret, current_index,
                   total_entries, late, start_index, loopVars, histVars>>


(***************************************************************************)
(* The multi-model pipeline and the whole-file mode, as far as they touch  *)
(* the progress store.                                                     *)
(***************************************************************************)
\* multi_model.py:204-314 (and 426-483 on the fast path): one entry of ALL
\* parsed entries gets its final text (a translation, or the original text
\* when the translation call fails) and is committed
MultiModelEntry ==
    /\ pc = "multi-model"
    /\ i < inputN
    /\ LET entry == ParsedEntry(i + 1)
       IN  \E text \in {Translation(entry.text, 1), entry.text} :
              Commit(TranslatedEntry(entry, text, run), "multi-model")
    /\ i' = i + 1
    /\ UNCHANGED <<diskVars, cfg, auxVars, resume, run, current_index, total_entries,
                   late, start_index, batch_start, processed_indices, resp,
                   histVars>>

\* translator.py:111-112
MultiModelReturn ==
    /\ pc = "multi-model"
    /\ i >= inputN
    /\ translated_entries' = local
    /\ current_index' = Len(local)
    /\ pc' = "write"
    /\ UNCHANGED <<diskVars, cfg, auxVars, resume, run, ret, total_entries, late,
                   start_index, loopVars, histVars>>

\* translator.py:117-124 with _translate_entries_whole_file and
\* _parse_whole_file_translation: the first m entries get the backend's
\* lines, the others stay as parsed; or translate_whole_file raises
WholeFile ==
    /\ pc = "whole-file"
    /\ \/ \E m \in 1..inputN :
             /\ translated_entries' =
                   [k \in 1..inputN |->
                      IF k <= m
                        THEN TranslatedEntry(ParsedEntry(k),
                                 Translation(ParsedEntry(k).text, 1), run)
                        ELSE [ParsedEntry(k) EXCEPT !.gen = run]]
             /\ current_index' = inputN
             /\ start_index' = 0
             /\ pc' = "write"
       \/ /\ start_index' = 0
          /\ translated_entries' =
                 IF start_index > 0 THEN <<>> ELSE translated_entries
          /\ current_index' = IF start_index > 0 THEN 0 ELSE current_index
          /\ pc' = "except"
    /\ UNCHANGED <<diskVars, cfg, auxVars, resume, run, ret, total_entries, late,
                   loopVars, histVars>>

(***************************************************************************)
(* translate_file, from the writing of the output to its end.              *)
(***************************************************************************)
\* (mutant) a failed write of the output goes on to the cleanup
WriteOutputThenCleanup ==
    /\ pc = "write"
    /\ \/ /\ ofile' = [exists |-> TRUE, entries |-> translated_entries]
          /\ pc' = "cleanup"
          /\ plain' = plain
       \/ /\ pc' = "cleanup"
          /\ plain' = FALSE
          /\ UNCHANGED ofile
    /\ UNCHANGED <<inputN, pfile, cfg, auxVars, resume, run, ret, storeVars, late,
                   start_index, loopVars, loadResult, discarded, reassessed, requests>>

\* translator.py:131-137 self.parser.write_file(all_entries, output_path);
\* an IOError is raised as ValueError
WriteOutput ==
    /\ pc = "write"
    /\ \/ /\ ofile' = [exists |-> TRUE, entries |-> translated_entries]
          /\ pc' = "cleanup"
          /\ plain' = plain
       \/ /\ pc' = "except"
          /\ plain' = FALSE
          /\ UNCHANGED ofile
    /\ UNCHANGED <<inputN, pfile, cfg, auxVars, resume, run, ret, storeVars, late,
                   start_index, loopVars, loadResult, discarded, reassessed, requests>>

\* translator.py:140-141 with TranslationProgress.cleanup_progress_file
CleanupProgressFile ==
    /\ pc = "cleanup"
    /\ pfile' = IF IsComplete(current_index, total_entries) THEN NoFile
                ELSE pfile
    /\ Halt("done")
    /\ UNCHANGED <<inputN, ofile, cfg, auxVars, run, plain>>

\* (mutant) the exception handler removes the progress file instead of
\* saving it
ExceptHandlerCleansUp ==
    /\ pc = "except"
    /\ pfile' = NoFile
    /\ Halt("failed")
    /\ plain' = FALSE
    /\ UNCHANGED <<inputN, ofile, cfg, auxVars, run>>

\* translator.py:153-161: except Exception: progress.save_progress(); raise
ExceptHandler ==
    /\ pc = "except"
    /\ BeginSave("failed")
    /\ plain' = FALSE
    /\ UNCHANGED <<inputN, ofile, cfg, auxVars, resume, run, storeVars, late,
                   start_index, loopVars, loadResult, discarded, reassessed, requests>>

\* (mutant) the signal handler exits without saving
SignalHandlerNoSave ==
    /\ pc \in Running
    /\ Halt("exited")
    /\ UNCHANGED <<diskVars, cfg, auxVars, run, plain>>

\* progress.py:71-75 signal_handler on SIGINT or SIGTERM: save_progress(),
\* then sys.exit(0); SystemExit is not caught by translate_file.  (A signal
\* that arrives inside save_progress finds the file truncated; the handler's
\* own save_progress rewrites it whole.)
SignalHandler ==
    /\ pc \in Running
    /\ pfile' = ProgressData(current_index, total_entries, translated_entries)
    /\ Halt("exited")
    /\ UNCHANGED <<inputN, ofile, cfg, auxVars, run, plain>>

\* The process is killed outright (SIGKILL, power loss): nothing more runs
Crash ==
    /\ pc \in Running
    /\ Halt("crashed")
    /\ plain' = FALSE
    /\ UNCHANGED <<diskVars, cfg, auxVars, run>>

Next ==
    \/ ForeignProgress
    \/ StartRun
    \/ ParseInput
    \/ CheckResume
    \/ InitializeTranslation
    \/ SaveFinish
    \/ AddIncrement
    \/ LineStep
    \/ LineReturn
    \/ BatchRequest
    \/ BatchProcess
    \/ BatchFallback
    \/ BatchAdvance
    \/ BatchReturn
    \/ MultiModelEntry
    \/ MultiModelReturn
    \/ WholeFile
    \/ WriteOutput
    \/ CleanupProgressFile
    \/ ExceptHandler
    \/ SignalHandler
    \/ Crash

Spec == Init /\ [][Next]_vars


(***************************************************************************)
(* translate_file in batch mode (translator.py:88-161, 236-354) on inputs  *)
(* of up to MaxBatchN entries: the steps of Next that a batch-mode run     *)
(* takes when no signal arrives.                                           *)
(***************************************************************************)
BatchInit ==
    /\ RetryIdle
    /\ FilesIdle
    /\ CliIdle
    /\ PipeIdle
    /\ ExtIdle
    /\ inputN \in 1..MaxBatchN
    /\ cfg \in {c \in Configs : c.mode = "batch"}
    /\ ProcessIdle

BatchNext ==
    \/ StartRun
    \/ ParseInput
    \/ CheckResume
    \/ InitializeTranslation
    \/ SaveFinish
    \/ AddIncrement
    \/ BatchRequest
    \/ BatchProcess
    \/ BatchFallback
    \/ BatchAdvance
    \/ BatchReturn
    \/ WriteOutput
    \/ CleanupProgressFile
    \/ ExceptHandler

BatchSpec == BatchInit /\ [][BatchNext]_vars


(***************************************************************************)
(* translate_with_retry of OllamaClient (ollama_client.py:154-180) and of  *)
(* MarianClient (marian_client.py:350-376): the same loop in both.         *)
(***************************************************************************)
Clients == {"ollama", "marian"}

\* the exceptions translate_with_retry catches: except (ConnectionError,
\* ValueError)
Retryable == {"ConnectionError", "ValueError"}

\* what one call of translate_text can do: return the translated text, or
\* raise (TypeError standing for every exception that is not caught)
CallKinds == {"ok"} \cup Retryable \cup {"TypeError"}

\* Config.__post_init__: max_retries >= 1
RetryInit ==
    /\ TaskIdle
    /\ FilesIdle
    /\ CliIdle
    /\ PipeIdle
    /\ ExtIdle
    /\ client \in Clients
    /\ max_retries \in 1..MaxRetries
    /\ attempt = 0
    /\ last_error = NoError
    /\ retry_pc = "idle"
    /\ outcome = NoError
    /\ calls = <<>>

\* translate_with_retry(text, context) is called: last_error = None, and
\* the for loop starts
RetryCall ==
    /\ retry_pc = "idle"
    /\ retry_pc' = "loop"
    /\ attempt' = 0
    /\ last_error' = NoError
    /\ UNCHANGED <<progVars, filesVars, cliVars, pipeVars, extVars, client, max_retries, outcome, calls>>

\* (mutant) a failed attempt is always followed by another one
RetriesOnceMore(n) == n < max_retries

\* ollama_client.py:175  if attempt < self.config.max_retries - 1: continue
MayRetry(n) == n < max_retries - 1

\* one iteration of  for attempt in range(self.config.max_retries):  the
\* call returns, or raises an error that is caught (continue, or break and
\* the final raise of line 180), or raises one that is not caught
RetryAttempt ==
    /\ retry_pc = "loop"
    /\ \E kind \in CallKinds :
         LET e == [kind |-> kind, attempt |-> attempt + 1]
         IN  /\ calls' = Append(calls, e)
             /\ IF kind = "ok"
                  THEN /\ retry_pc' = "returned"
                       /\ outcome' = e
                       /\ UNCHANGED <<attempt, last_error>>
                  ELSE IF kind \in Retryable
                  THEN /\ last_error' = e
                       /\ IF MayRetry(attempt)
                            THEN /\ attempt' = attempt + 1
                                 /\ UNCHANGED <<retry_pc, outcome>>
                            ELSE /\ retry_pc' = "raised"
                                 /\ outcome' = [kind |-> "ValueError",
                                                 attempt |-> 0,
                                                 carries |-> e]
                                 /\ UNCHANGED attempt
                  ELSE /\ retry_pc' = "raised"
                       /\ outcome' = [kind |-> kind, attempt |-> attempt + 1,
                                       carries |-> e]
                       /\ UNCHANGED <<attempt, last_error>>
    /\ UNCHANGED <<progVars, filesVars, cliVars, pipeVars, extVars, client, max_retries>>

RetryNext == RetryCall \/ RetryAttempt

RetrySpec == RetryInit /\ [][RetryNext]_vars


(***************************************************************************)
(* Several input files: the loop of main (main.py:249-273) and the loop of *)
(* SubtitleTranslator.batch_translate (translator.py:488-517).             *)
(***************************************************************************)
Callers == {"main", "batch_translate"}

FilesInit ==
    /\ TaskIdle
    /\ RetryIdle
    /\ CliIdle
    /\ PipeIdle
    /\ ExtIdle
    /\ caller \in Callers
    /\ files \in 1..MaxFiles
    /\ file_pos = 0
    /\ files_pc = "idle"
    /\ attempted = <<>>

\* the files are listed and the loop over them starts
FilesStart ==
    /\ files_pc = "idle"
    /\ files_pc' = "loop"
    /\ UNCHANGED <<progVars, retryVars, cliVars, pipeVars, extVars, caller, files, file_pos, attempted>>

\* One iteration: translate_file returns or raises.  batch_translate
\* catches the exception, logs it and continues (translator.py:511-515);
\* main's loop has no handler of its own, the exception leaves the loop and
\* main prints it and returns 1 (main.py:260-271)
TranslateOneFile ==
    /\ files_pc = "loop"
    /\ file_pos < files
    /\ \E result \in {"returned", "raised"} :
          /\ attempted' = Append(attempted, result)
          /\ IF result = "raised" /\ caller = "main"
               THEN files_pc' = "error" /\ UNCHANGED file_pos
               ELSE file_pos' = file_pos + 1 /\ UNCHANGED files_pc
    /\ UNCHANGED <<progVars, retryVars, cliVars, pipeVars, extVars, caller, files>>

\* the loop has gone past every file
FilesDone ==
    /\ files_pc = "loop"
    /\ file_pos >= files
    /\ files_pc' = "completed"
    /\ UNCHANGED <<progVars, retryVars, cliVars, pipeVars, extVars, caller, files, file_pos, attempted>>

FilesNext == FilesStart \/ TranslateOneFile \/ FilesDone

FilesSpec == FilesInit /\ [][FilesNext]_vars


(***************************************************************************)
(* main builds the configuration (main.py:161-200) and the batch scheduler *)
(* reads batch_size and overlap_size from it (translator.py:248-267).      *)
(***************************************************************************)
\* Config.__post_init__ on batch_size and overlap_size (config.py:193-198):
\* no ValueError is raised
PostInitAccepts(batch_size, overlap_size) ==
    /\ ~(batch_size < 1)
    /\ ~(overlap_size < 0)
    /\ ~(overlap_size >= batch_size)

\* an int option of the command line: absent, or any integer (type=int)
IntOptions ==
    {NotGiven} \cup [given : {TRUE}, value : (0 - 1)..MaxBatch]

YamlFiles ==
    {NoYaml} \cup [exists : {TRUE}, batch_size : 0..MaxBatch,
                    overlap_size : (0 - 1)..MaxBatch]

\* the state after parser.parse_args(), for --mode batch on an input of
\* MaxN entries
CliInit ==
    /\ RetryIdle
    /\ FilesIdle
    /\ PipeIdle
    /\ ExtIdle
    /\ inputN = MaxN
    /\ cfg = [mode |-> "batch", batch |-> DefaultBatch]
    /\ ProcessIdle
    /\ yaml \in YamlFiles
    /\ args \in [batch_size : IntOptions, overlap_size : IntOptions]
    /\ cli_pc = "start"
    /\ passes = 0

\* main.py:164-173: Config.from_yaml(config_path) if the file exists, else
\* Config(); the ValueError of __post_init__ ends main with 1
LoadConfig ==
    /\ cli_pc = "start"
    /\ IF ~yaml.exists
         THEN /\ cfg' = [cfg EXCEPT !.batch =
                            [batch_size |-> DefaultBatchSize,
                             overlap_size |-> DefaultOverlapSize,
                             reassess_overlaps |-> TRUE]]
              /\ cli_pc' = "loaded"
         ELSE IF PostInitAccepts(yaml.batch_size, yaml.overlap_size)
         THEN /\ cfg' = [cfg EXCEPT !.batch =
                            [batch_size |-> yaml.batch_size,
                             overlap_size |-> yaml.overlap_size,
                             reassess_overlaps |-> TRUE]]
              /\ cli_pc' = "loaded"
         ELSE /\ cli_pc' = "config_error"
              /\ UNCHANGED cfg
    /\ UNCHANGED <<inputN, pfile, ofile, resume, run, pc, ret, storeVars,
                   late, start_index, loopVars, histVars, retryVars,
                   filesVars, pipeVars, extVars, yaml, args, passes>>

\* main.py:195-198:  if args.batch_size: config.batch_size = args.batch_size
\*                   if args.overlap_size is not None: config.overlap_size = ...
\* The attributes are assigned; __post_init__ does not run again.
ApplyOverrides ==
    /\ cli_pc = "loaded"
    /\ cfg' = [cfg EXCEPT
                 !.batch.batch_size =
                     IF args.batch_size.given /\ args.batch_size.value # 0
                       THEN args.batch_size.value ELSE @,
                 !.batch.overlap_size =
                     IF args.overlap_size.given
                       THEN args.overlap_size.value ELSE @]
    /\ cli_pc' = "ready"
    /\ UNCHANGED <<inputN, pfile, ofile, resume, run, pc, ret, storeVars,
                   late, start_index, loopVars, histVars, retryVars,
                   filesVars, pipeVars, extVars, yaml, args, passes>>

\* translator.py:248-255: _translate_entries_batch reads batch_size and
\* overlap_size from the configuration and sets batch_start = 0
StartScheduling ==
    /\ cli_pc = "ready"
    /\ cli_pc' = "scheduling"
    /\ batch_start' = 0
    /\ UNCHANGED <<diskVars, cfg, resume, run, pc, ret, storeVars, late,
                   start_index, local, i, processed_indices, resp, histVars,
                   retryVars, filesVars, pipeVars, extVars, yaml, args, passes>>

\* translator.py:256-267 and 349: one pass of  while batch_start <
\* total_entries: batch_end and overlap_start are computed and batch_start
\* moves to batch_end (at most MaxN + 1 passes are followed: with a
\* batch_size below 1 the loop does not end)
SchedulePass ==
    /\ cli_pc = "scheduling"
    /\ batch_start < inputN
    /\ passes <= MaxN
    /\ batch_start' = BatchEnd(batch_start, inputN)
    /\ passes' = passes + 1
    /\ UNCHANGED <<diskVars, cfg, resume, run, pc, ret, storeVars, late,
                   start_index, local, i, processed_indices, resp, histVars,
                   retryVars, filesVars, pipeVars, extVars, yaml, args, cli_pc>>

\* translator.py:256: batch_start < total_entries is false, the loop ends
SchedulingDone ==
    /\ cli_pc = "scheduling"
    /\ batch_start >= inputN
    /\ cli_pc' = "done"
    /\ UNCHANGED <<progVars, retryVars, filesVars, pipeVars, extVars, yaml, args,
                   passes>>

CliNext ==
    \/ LoadConfig
    \/ ApplyOverrides
    \/ StartScheduling
    \/ SchedulePass
    \/ SchedulingDone

CliSpec == CliInit /\ [][CliNext]_vars


(***************************************************************************)
(* The multi-model pipeline: MultiModelOrchestrator.translate_with_multimodel *)
(* and _translate_entries_batch_fast (multi_model.py:121-493), with the    *)
(* orchestrator enabled.  Every run is a new process: the orchestrator is  *)
(* constructed with story_context = None (multi_model.py:63).              *)
(***************************************************************************)
PipelineConfigs ==
    [run_context_analysis : BOOLEAN, run_translation : BOOLEAN,
     run_validation : BOOLEAN, run_dialogue_refinement : BOOLEAN,
     skip_validation_for_high_confidence : BOOLEAN]

PipeSizes == {1, 2, MaxPipeN}

PipeInit ==
    /\ TaskIdle
    /\ RetryIdle
    /\ FilesIdle
    /\ CliIdle
    /\ ExtIdle
    /\ pipeline \in PipelineConfigs
    /\ entriesN \in PipeSizes
    /\ srt_results = FreshResults("pipeline")
    /\ result_file = NoResultFile
    /\ pipe_pc = "start"
    /\ entry_pos = 0
    /\ fast_end = 0
    /\ translation_result = NoResult
    /\ added = 0
    /\ pipe_runs = 0
    /\ save_failed = FALSE
    /\ faults = 0
    /\ story_context = "none"
    /\ context_queries = 0

\* positions at which translate_with_multimodel is working on the file
Processing ==
    {"context_call", "next_entry", "step2_call", "step3", "step3_call",
     "step4", "step4_call", "fast_batch", "fast_call", "fast_fallback"}

\* multi_model.py:148-153
OnlyTranslation ==
    /\ pipeline.run_translation
    /\ ~pipeline.run_context_analysis
    /\ ~pipeline.run_validation
    /\ ~pipeline.run_dialogue_refinement

Cost(deviates) == IF deviates THEN 1 ELSE 0

\* _save_step_result (multi_model.py:758-765): open(file_path, "w") and
\* json.dump replace the file's content by result_data; an exception of the
\* write (here: open fails, the file stays as it was) is logged and not
\* raised
SaveStepResult(result_data, ok) ==
    IF ok THEN [exists |-> TRUE, content |-> result_data] ELSE result_file

\* multi_model.py:179  run_context_analysis and self.story_context is None
NeedsAnalysis(context) == pipeline.run_context_analysis /\ context = "none"

\* multi_model.py:147-199 and 341-365: a run starts, in a new process (the
\* orchestrator is constructed with story_context = None, multi_model.py:63)
\* or, after a file is done, for the next file of the same process
\* (main.py:261-263: one translator for all files), whose results file does
\* not exist yet; the fast path is taken for a translation-only pipeline on
\* more than five entries; srt_results is created with no entries; the
\* context model is called when the analysis is enabled and no context is
\* held, and a disabled analysis puts an empty context where none is held
StartPipeline ==
    /\ pipe_pc \in {"start", "done", "interrupted"}
    /\ pipe_runs < MaxRuns
    /\ pipe_runs' = pipe_runs + 1
    /\ entry_pos' = 0
    /\ fast_end' = 0
    /\ added' = 0
    /\ save_failed' = FALSE
    /\ translation_result' = NoResult
    /\ context_queries' = 0
    /\ \E fresh \in BOOLEAN :
         LET context == IF fresh THEN "none" ELSE story_context
         IN  /\ pipe_pc # "done" => fresh
             /\ result_file' = IF fresh THEN result_file ELSE NoResultFile
             /\ IF OnlyTranslation /\ entriesN > FastPathThreshold
                  THEN /\ srt_results' = FreshResults("batch_fast")
                       /\ pipe_pc' = "fast_batch"
                       /\ story_context' = context
                  ELSE /\ srt_results' = FreshResults("pipeline")
                       /\ pipe_pc' = IF NeedsAnalysis(context)
                                       THEN "context_call" ELSE "next_entry"
                       /\ story_context' =
                              IF ~pipeline.run_context_analysis
                                 /\ context = "none"
                                THEN "empty" ELSE context
    /\ UNCHANGED <<progVars, retryVars, filesVars, cliVars, extVars, pipeline,
                   entriesN, faults>>

\* multi_model.py:179-188: analyze_story_context (multi_model.py:83-119,
\* with analyze_full_story as configured by default) queries the context
\* model once and returns the parsed context or, when the query or the
\* parsing raises, an empty one; it becomes self.story_context, and the
\* analysis is added to srt_results and saved
ContextAnalysis ==
    /\ pipe_pc = "context_call"
    /\ context_queries' = context_queries + 1
    /\ \E answer \in {"analyzed", "failed"}, ok \in BOOLEAN :
         LET result_data ==
                 [srt_results EXCEPT !.step1_context_analysis = TRUE]
             deviations == Cost(answer # "analyzed") + Cost(~ok)
         IN  /\ faults + deviations <= MaxFaults
             /\ faults' = faults + deviations
             /\ story_context' =
                    IF answer = "analyzed" THEN "analyzed" ELSE "empty"
             /\ srt_results' = result_data
             /\ result_file' = SaveStepResult(result_data, ok)
             /\ save_failed' = (save_failed \/ ~ok)
    /\ pipe_pc' = "next_entry"
    /\ UNCHANGED <<progVars, retryVars, filesVars, cliVars, extVars, pipeline,
                   entriesN, entry_pos, fast_end, translation_result, added,
                   pipe_runs>>

\* multi_model.py:225-238: the step1_context record of an entry
Step1Context ==
    IF pipeline.run_context_analysis
      THEN Recorded("", 0) ELSE Skipped("disabled")

\* multi_model.py:204-258 up to the call of the translation model: the
\* entry's record and its step1_context are set in srt_results; with
\* translation disabled step2_translation is {"skipped": True}, the
\* original text goes on with confidence 0.5 and the file is saved
BeginEntry ==
    /\ pipe_pc = "next_entry"
    /\ entry_pos < entriesN
    /\ entry_pos' = entry_pos + 1
    /\ LET started ==
               [srt_results EXCEPT !.entries[entry_pos + 1] =
                   [NoEntry EXCEPT !.present = TRUE,
                                   !.step1_context = Step1Context]]
       IN  IF pipeline.run_translation
             THEN /\ srt_results' = started
                  /\ pipe_pc' = "step2_call"
                  /\ UNCHANGED <<result_file, translation_result,
                                 save_failed, faults>>
             ELSE \E ok \in BOOLEAN :
                    LET result_data ==
                            [started EXCEPT
                               !.entries[entry_pos + 1].step2_translation =
                                   Skipped("")]
                    IN  /\ faults + Cost(~ok) <= MaxFaults
                        /\ faults' = faults + Cost(~ok)
                        /\ srt_results' = result_data
                        /\ result_file' = SaveStepResult(result_data, ok)
                        /\ save_failed' = (save_failed \/ ~ok)
                        /\ translation_result' =
                               [text |-> "original", confidence |-> 5]
                        /\ pipe_pc' = "step3"
    /\ UNCHANGED <<progVars, retryVars, filesVars, cliVars, extVars, ctxVars, pipeline,
                   entriesN, fast_end, added, pipe_runs>>

\* _translate_with_context (multi_model.py:584-637): confidence 0.9 for a
\* non-empty text that differs from the original, 0.5 otherwise, and the
\* original text with 0.2 when the call raises
TranslateWithContext(answer) ==
    CASE answer = "translated" -> [text |-> "hungarian", confidence |-> 9]
      [] answer = "same" -> [text |-> "original", confidence |-> 5]
      [] answer = "failed" -> [text |-> "original", confidence |-> 2]

\* multi_model.py:240-258: the translation model answers, step2_translation
\* is recorded and the file is saved
TranslationCall ==
    /\ pipe_pc = "step2_call"
    /\ \E answer \in {"translated", "same", "failed"}, ok \in BOOLEAN :
         LET result == TranslateWithContext(answer)
             result_data ==
                 [srt_results EXCEPT
                    !.entries[entry_pos].step2_translation =
                        Recorded(result.text, result.confidence)]
             deviations == Cost(answer # "translated") + Cost(~ok)
         IN  /\ faults + deviations <= MaxFaults
             /\ faults' = faults + deviations
             /\ translation_result' = result
             /\ srt_results' = result_data
             /\ result_file' = SaveStepResult(result_data, ok)
             /\ save_failed' = (save_failed \/ ~ok)
    /\ pipe_pc' = "step3"
    /\ UNCHANGED <<progVars, retryVars, filesVars, cliVars, extVars, ctxVars, pipeline,
                   entriesN, entry_pos, fast_end, added, pipe_runs>>

\* multi_model.py:260-280 up to the call of the validator: a disabled
\* validation, or a confidence above 0.8 with
\* skip_validation_for_high_confidence, records the skip and saves
ValidationStep ==
    /\ pipe_pc = "step3"
    /\ LET skip ==
               IF ~pipeline.run_validation THEN "disabled"
               ELSE IF pipeline.skip_validation_for_high_confidence
                       /\ translation_result.confidence > 8
                      THEN "high_confidence"
               ELSE "no"
       IN  IF skip = "no"
             THEN /\ pipe_pc' = "step3_call"
                  /\ UNCHANGED <<srt_results, result_file, save_failed,
                                 faults>>
             ELSE \E ok \in BOOLEAN :
                    LET result_data ==
                            [srt_results EXCEPT
                               !.entries[entry_pos].step3_validation =
                                   Skipped(skip)]
                    IN  /\ faults + Cost(~ok) <= MaxFaults
                        /\ faults' = faults + Cost(~ok)
                        /\ srt_results' = result_data
                        /\ result_file' = SaveStepResult(result_data, ok)
                        /\ save_failed' = (save_failed \/ ~ok)
                        /\ pipe_pc' = "step4"
    /\ UNCHANGED <<progVars, retryVars, filesVars, cliVars, extVars, ctxVars, pipeline,
                   entriesN, entry_pos, fast_end, translation_result, added,
                   pipe_runs>>

\* what the validator model can answer (multi_model.py:665-680): a JSON
\* object with a confidence (in tenths) and a suggestion ("" for none, null
\* or empty), an output json.loads or float() rejects, or a call that raises
ValidatorAnswers ==
    [kind : {"json"}, suggestion : {"", "validated"}, confidence : {5, 7, 9}]
      \cup {[kind |-> "malformed", suggestion |-> "", confidence |-> 0],
            [kind |-> "raise", suggestion |-> "", confidence |-> 0]}

\* the answer of a validator that accepts the translation
Accepting == [kind |-> "json", suggestion |-> "", confidence |-> 9]

\* (mutant) a suggestion is taken up to a confidence of 0.7
ValidateTranslationLowBar(translation, answer) ==
    IF answer.kind = "raise"
      THEN translation
      ELSE LET parsed == answer.kind = "json"
               confidence == IF parsed THEN answer.confidence ELSE 5
               suggestion == IF parsed THEN answer.suggestion ELSE ""
           IN  [text |-> IF suggestion # "" /\ confidence <= 7
                           THEN suggestion ELSE translation.text,
                confidence |-> confidence]

\* _validate_translation (multi_model.py:639-692), the prompt built: an
\* output that does not parse counts as confidence 0.5 without a
\* suggestion; a non-empty suggestion replaces the text when the confidence
\* is below 0.7, otherwise the text is kept, either way with the validator's
\* confidence; when the call raises the translation is returned as it came
ValidateTranslation(translation, answer) ==
    IF answer.kind = "raise"
      THEN translation
      ELSE LET parsed == answer.kind = "json"
               confidence == IF parsed THEN answer.confidence ELSE 5
               suggestion == IF parsed THEN answer.suggestion ELSE ""
           IN  [text |-> IF suggestion # "" /\ confidence < 7
                           THEN suggestion ELSE translation.text,
                confidence |-> confidence]

\* multi_model.py:271-280: the validator answers, step3_validation is
\* recorded and the file is saved
ValidationCall ==
    /\ pipe_pc = "step3_call"
    /\ \E answer \in ValidatorAnswers, ok \in BOOLEAN :
         LET result == ValidateTranslation(translation_result, answer)
             result_data ==
                 [srt_results EXCEPT
                    !.entries[entry_pos].step3_validation =
                        Recorded(result.text, result.confidence)]
             deviations == Cost(answer # Accepting) + Cost(~ok)
         IN  /\ faults + deviations <= MaxFaults
             /\ faults' = faults + deviations
             /\ translation_result' = result
             /\ srt_results' = result_data
             /\ result_file' = SaveStepResult(result_data, ok)
             /\ save_failed' = (save_failed \/ ~ok)
    /\ pipe_pc' = "step4"
    /\ UNCHANGED <<progVars, retryVars, filesVars, cliVars, extVars, ctxVars, pipeline,
                   entriesN, entry_pos, fast_end, added, pipe_runs>>

\* (mutant) the context is analysed again after every entry
NextAfterEntryReanalyse == "context_call"

\* multi_model.py:204  for entry in entries: the position after an entry
NextAfterEntry == "next_entry"

\* multi_model.py:283-314: step4_dialogue and final_result are recorded,
\* the file is saved and the entry is handed to
\* progress.add_translated_entry
FinishEntry(final, step4, ok) ==
    LET result_data ==
            [srt_results EXCEPT
               !.entries[entry_pos].step4_dialogue = step4,
               !.entries[entry_pos].final_result =
                   Recorded(final.text, final.confidence)]
    IN  /\ srt_results' = result_data
        /\ result_file' = SaveStepResult(result_data, ok)
        /\ save_failed' = (save_failed \/ ~ok)
        /\ translation_result' = final
        /\ added' = added + 1
        /\ pipe_pc' = NextAfterEntry

\* multi_model.py:282-314: with dialogue refinement disabled
\* the validated result is final; otherwise the dialogue model is called
DialogueStep ==
    /\ pipe_pc = "step4"
    /\ IF pipeline.run_dialogue_refinement
         THEN /\ pipe_pc' = "step4_call"
              /\ UNCHANGED <<srt_results, result_file, save_failed, faults,
                             translation_result, added>>
         ELSE \E ok \in BOOLEAN :
                /\ faults + Cost(~ok) <= MaxFaults
                /\ faults' = faults + Cost(~ok)
                /\ FinishEntry(translation_result, Skipped("disabled"), ok)
    /\ UNCHANGED <<progVars, retryVars, filesVars, cliVars, extVars, ctxVars, pipeline,
                   entriesN, entry_pos, fast_end, pipe_runs>>

\* _refine_dialogue (multi_model.py:694-733): a non-empty answer that
\* differs replaces the text and keeps the confidence; otherwise, and when
\* the call raises, the translation is returned as it came
RefineDialogue(translation, answer) ==
    IF answer = "improved"
      THEN [text |-> "refined", confidence |-> translation.confidence]
      ELSE translation

\* multi_model.py:287-314: the dialogue model answers
DialogueCall ==
    /\ pipe_pc = "step4_call"
    /\ \E answer \in {"unchanged", "improved"}, ok \in BOOLEAN :
         LET result == RefineDialogue(translation_result, answer)
             deviations == Cost(answer # "unchanged") + Cost(~ok)
         IN  /\ faults + deviations <= MaxFaults
             /\ faults' = faults + deviations
             /\ FinishEntry(result,
                            Recorded(result.text, result.confidence), ok)
    /\ UNCHANGED <<progVars, retryVars, filesVars, cliVars, extVars, ctxVars, pipeline,
                   entriesN, entry_pos, fast_end, pipe_runs>>

\* multi_model.py:318-326 and 485-493: processing_complete is set and the
\* file is saved; the translated entries are returned
FinishPipeline ==
    /\ pipe_pc \in {"next_entry", "fast_batch"}
    /\ entry_pos >= entriesN
    /\ \E ok \in BOOLEAN :
         LET result_data ==
                 [srt_results EXCEPT !.processing_complete = TRUE]
         IN  /\ faults + Cost(~ok) <= MaxFaults
             /\ faults' = faults + Cost(~ok)
             /\ srt_results' = result_data
             /\ result_file' = SaveStepResult(result_data, ok)
             /\ save_failed' = (save_failed \/ ~ok)
    /\ pipe_pc' = "done"
    /\ UNCHANGED <<progVars, retryVars, filesVars, cliVars, extVars, ctxVars, pipeline,
                   entriesN, entry_pos, fast_end, translation_result, added,
                   pipe_runs>>

\* (mutant) the fast path cuts its batches by the configured batch_size
FastBatchEndConfigured(start) == Min(start + DefaultBatchSize, entriesN)

\* multi_model.py:347 and 378: batches = [entries[i:i + batch_size] for i
\* in range(0, len(entries), batch_size)], batch_size being 20 (the
\* pipeline settings have no batch_size attribute, config.py:95-107)
FastBatchEnd(start) == Min(start + FastBatchSize, entriesN)

\* multi_model.py:347 and 377-381: the next batch of at most batch_size
\* entries
FastBatch ==
    /\ pipe_pc = "fast_batch"
    /\ entry_pos < entriesN
    /\ fast_end' = FastBatchEnd(entry_pos)
    /\ pipe_pc' = "fast_call"
    /\ UNCHANGED <<progVars, retryVars, filesVars, cliVars, extVars, ctxVars, pipeline,
                   entriesN, srt_results, result_file, entry_pos,
                   translation_result, added, pipe_runs, save_failed,
                   faults>>

\* the record _translate_entries_batch_fast writes for an entry
\* (multi_model.py:437-454)
FastEntry ==
    [NoEntry EXCEPT !.present = TRUE,
                    !.step2_translation = Recorded("hungarian", 9),
                    !.final_result = Recorded("hungarian", 9)]

\* multi_model.py:420-458: one call translates the batch; every entry of
\* it is added to the progress and recorded in srt_results (in memory); a
\* failed call leads to the per-entry fallback
FastBatchCall ==
    /\ pipe_pc = "fast_call"
    /\ \E answer \in {"translated", "failed"} :
         /\ faults + Cost(answer # "translated") <= MaxFaults
         /\ faults' = faults + Cost(answer # "translated")
         /\ IF answer = "translated"
              THEN /\ srt_results' =
                          [srt_results EXCEPT !.entries =
                              [e \in 1..MaxEntries |->
                                  IF e > entry_pos /\ e <= fast_end
                                    THEN FastEntry ELSE @[e]]]
                   /\ added' = added + (fast_end - entry_pos)
                   /\ entry_pos' = fast_end
                   /\ pipe_pc' = "fast_batch"
              ELSE /\ pipe_pc' = "fast_fallback"
                   /\ UNCHANGED <<srt_results, added, entry_pos>>
    /\ UNCHANGED <<progVars, retryVars, filesVars, cliVars, extVars, ctxVars, pipeline,
                   entriesN, result_file, fast_end, translation_result,
                   pipe_runs, save_failed>>

\* multi_model.py:456-483: the fallback translates the entries of the
\* failed batch one by one; the translation or, when the call fails, the
\* original entry is added to the progress, and srt_results gets no record
FastFallbackEntry ==
    /\ pipe_pc = "fast_fallback"
    /\ \E answer \in {"translated", "failed"} :
         /\ faults + Cost(answer # "translated") <= MaxFaults
         /\ faults' = faults + Cost(answer # "translated")
    /\ entry_pos' = entry_pos + 1
    /\ added' = added + 1
    /\ pipe_pc' = IF entry_pos + 1 >= fast_end
                    THEN "fast_batch" ELSE "fast_fallback"
    /\ UNCHANGED <<progVars, retryVars, filesVars, cliVars, extVars, ctxVars, pipeline,
                   entriesN, srt_results, result_file, fast_end,
                   translation_result, pipe_runs, save_failed>>

\* the process is interrupted or killed while the pipeline is working
Interrupt ==
    /\ pipe_pc \in Processing
    /\ pipe_pc' = "interrupted"
    /\ UNCHANGED <<progVars, retryVars, filesVars, cliVars, extVars, ctxVars, pipeline,
                   entriesN, srt_results, result_file, entry_pos, fast_end,
                   translation_result, added, pipe_runs, save_failed,
                   faults>>

PipeNext ==
    \/ StartPipeline
    \/ ContextAnalysis
    \/ BeginEntry
    \/ TranslationCall
    \/ ValidationStep
    \/ ValidationCall
    \/ DialogueStep
    \/ DialogueCall
    \/ FinishPipeline
    \/ FastBatch
    \/ FastBatchCall
    \/ FastFallbackEntry
    \/ Interrupt

PipelineSpec == PipeInit /\ [][PipeNext]_vars

\* the pipeline with translation enabled, on files around the fast path's
\* threshold and longer than one of its batches
FastConfigs ==
    {c \in PipelineConfigs :
        c.run_translation /\ ~c.skip_validation_for_high_confidence}

FastSizes == {FastPathThreshold, FastPathThreshold + 1, MaxFastN}

FastInit ==
    /\ TaskIdle
    /\ RetryIdle
    /\ FilesIdle
    /\ CliIdle
    /\ ExtIdle
    /\ pipeline \in FastConfigs
    /\ entriesN \in FastSizes
    /\ srt_results = FreshResults("pipeline")
    /\ result_file = NoResultFile
    /\ pipe_pc = "start"
    /\ entry_pos = 0
    /\ fast_end = 0
    /\ translation_result = NoResult
    /\ added = 0
    /\ pipe_runs = 0
    /\ save_failed = FALSE
    /\ faults = 0
    /\ story_context = "none"
    /\ context_queries = 0

FastSpec == FastInit /\ [][PipeNext]_vars


(***************************************************************************)
(* The recovery of one entry: translate_with_retry on the primary model,   *)
(* then, in line-by-line mode, OllamaClient.translate_with_fallback        *)
(* (ollama_client.py:182-223), then the original entry                     *)
(* (translator.py:193-215 and 321-346).  A whole translate_with_retry is   *)
(* one step here; RetrySpec follows its attempts.                          *)
(***************************************************************************)
RecoverySites == {"line-by-line", "batch"}

RecoveryInit ==
    /\ TaskIdle
    /\ RetryIdle
    /\ FilesIdle
    /\ CliIdle
    /\ PipeIdle
    /\ CtorIdle
    /\ CadenceIdle
    /\ ParseIdle
    /\ site \in RecoverySites
    /\ fallback_models \in 0..MaxModels
    /\ model_pos = 0
    /\ rec_pc = "primary"
    /\ ops = <<>>
    /\ committed = "none"

\* one thing done for the entry: a whole translate_with_retry with the
\* model at position model of models_to_try (0: config.model), or the skip
\* of a model that get_available_models does not list
Op(phase, op, model, result) ==
    [phase |-> phase, op |-> op, model |-> model, result |-> result]

\* translator.py:194-199 (line-by-line) and 323-325 (the scheduler's
\* per-entry fallback): translate_with_retry(entry.text, context) with the
\* primary model.  When it raises, line-by-line goes on to
\* translate_with_fallback (translator.py:201-206), the scheduler appends
\* the original entry (translator.py:340-346).
PrimaryRetry ==
    /\ rec_pc = "primary"
    /\ \E result \in {"returned", "raised"} :
         /\ ops' = Append(ops, Op("primary", "retry", 0, result))
         /\ IF result = "returned"
              THEN committed' = "translated" /\ rec_pc' = "committed"
              ELSE IF site = "line-by-line"
              THEN committed' = committed /\ rec_pc' = "fallback"
              ELSE committed' = "original" /\ rec_pc' = "committed"
    /\ model_pos' = 0
    /\ UNCHANGED <<progVars, retryVars, filesVars, cliVars, pipeVars,
                   ctorVars, cadVars, parseVars, site,
                   fallback_models>>

\* ollama_client.py:199-221: one iteration of  for model in models_to_try
\* ([config.model] + config.fallback_models): a model that
\* get_available_models() does not list is skipped; otherwise
\* translate_with_retry runs with it, its result is returned, or its
\* exception is kept as last_error and the loop goes on
FallbackModel ==
    /\ rec_pc = "fallback"
    /\ model_pos <= fallback_models
    /\ \E listed \in BOOLEAN, result \in {"returned", "raised"} :
         IF ~listed
           THEN /\ result = "raised"
                /\ ops' = Append(ops, Op("fallback", "skip", model_pos,
                                         "unavailable"))
                /\ model_pos' = model_pos + 1
                /\ UNCHANGED <<rec_pc, committed>>
           ELSE /\ ops' = Append(ops, Op("fallback", "retry", model_pos,
                                         result))
                /\ IF result = "returned"
                     THEN /\ committed' = "translated"
                          /\ rec_pc' = "committed"
                          /\ UNCHANGED model_pos
                     ELSE /\ model_pos' = model_pos + 1
                          /\ UNCHANGED <<rec_pc, committed>>
    /\ UNCHANGED <<progVars, retryVars, filesVars, cliVars, pipeVars,
                   ctorVars, cadVars, parseVars, site,
                   fallback_models>>

\* ollama_client.py:223  raise ValueError("All models failed. ..."), caught
\* by translator.py:207-215: the original entry is appended and handed to
\* progress.add_translated_entry
FallbackRaise ==
    /\ rec_pc = "fallback"
    /\ model_pos > fallback_models
    /\ committed' = "original"
    /\ rec_pc' = "committed"
    /\ UNCHANGED <<progVars, retryVars, filesVars, cliVars, pipeVars,
                   ctorVars, cadVars, parseVars, site,
                   fallback_models, model_pos, ops>>

RecoveryNext == PrimaryRetry \/ FallbackModel \/ FallbackRaise

RecoverySpec == RecoveryInit /\ [][RecoveryNext]_vars


(***************************************************************************)
(* SubtitleTranslator.__init__ (translator.py:20-43) and the branch        *)
(* translate_file takes on the configuration (translator.py:109-128).  In  *)
(* cfg the mode "multi-model" stands for config.multi_model.enabled.       *)
(***************************************************************************)
Backends == {"ollama", "marian"}

CtorInit ==
    /\ RetryIdle
    /\ FilesIdle
    /\ CliIdle
    /\ PipeIdle
    /\ RecoveryIdle
    /\ CadenceIdle
    /\ ParseIdle
    /\ inputN = 1
    /\ cfg \in Configs
    /\ ProcessIdle
    /\ translation_backend \in Backends
    /\ ollama_up \in BOOLEAN
    /\ model_listed \in BOOLEAN
    /\ ctor_pc = "new"
    /\ dispatched = "none"

\* translator.py:20-43: OllamaClient(config) and
\* MultiModelOrchestrator(config) are created whatever the backend is;
\* ConnectionError when Ollama does not answer; a model that is not listed
\* is only logged.  No attribute of config is assigned.
Construct ==
    /\ ctor_pc = "new"
    /\ ctor_pc' = IF ollama_up THEN "constructed" ELSE "raised"
    /\ UNCHANGED <<progVars, retryVars, filesVars, cliVars, pipeVars, recVars,
                   cadVars, parseVars, translation_backend, ollama_up, model_listed, dispatched>>

\* translator.py:109-128: translate_file runs the multi-model pipeline when
\* multi_model_orchestrator.is_enabled() (multi_model.py:79-81), otherwise
\* the configured translation mode
Dispatch ==
    /\ ctor_pc = "constructed"
    /\ ctor_pc' = "dispatched"
    /\ dispatched' = cfg.mode
    /\ UNCHANGED <<progVars, retryVars, filesVars, cliVars, pipeVars, recVars,
                   cadVars, parseVars, translation_backend, ollama_up, model_listed>>

CtorNext == Construct \/ Dispatch

CtorSpec == CtorInit /\ [][CtorNext]_vars


(***************************************************************************)
(* TranslationProgress.add_translated_entry with the clock                 *)
(* (progress.py:177-190).  last_save_time is assigned in __init__          *)
(* (progress.py:37) and nowhere else.                                      *)
(***************************************************************************)
CadenceInit ==
    /\ TaskIdle
    /\ RetryIdle
    /\ FilesIdle
    /\ CliIdle
    /\ PipeIdle
    /\ RecoveryIdle
    /\ CtorIdle
    /\ CadenceIdle
    /\ ParseIdle

\* time passes between two calls
Tick ==
    /\ clock + 16 <= MaxClock
    /\ clock' = clock + 16
    /\ UNCHANGED <<progVars, retryVars, filesVars, cliVars, pipeVars, recVars,
                   ctorVars, parseVars, last_save_time, saved_at, cur_index,
                   entry_count, file_index, last_call>>

\* progress.py:189  if self.current_index % 5 == 0 or time_since_save > 30
SaveDue(index, time_since_save) ==
    index % SaveEvery = 0 \/ time_since_save > SaveAfter

\* progress.py:185-190: append, current_index += 1, and save_progress()
\* when it is due; save_progress (progress.py:161-175) writes the file and
\* leaves last_save_time as it is
AddTranslatedEntry ==
    /\ cur_index < MaxAdds
    /\ entry_count' = entry_count + 1
    /\ cur_index' = cur_index + 1
    /\ LET time_since_save == clock - last_save_time
           saves == SaveDue(cur_index + 1, time_since_save)
       IN  /\ file_index' = IF saves THEN cur_index + 1 ELSE file_index
           /\ saved_at' = IF saves THEN clock ELSE saved_at
           /\ last_call' = [made |-> TRUE, index |-> cur_index + 1,
                            since_save |-> clock - saved_at,
                            saved |-> saves]
    /\ UNCHANGED <<progVars, retryVars, filesVars, cliVars, pipeVars, recVars,
                   ctorVars, parseVars, clock, last_save_time>>

CadenceNext == Tick \/ AddTranslatedEntry

CadenceSpec == CadenceInit /\ [][CadenceNext]_vars


(***************************************************************************)
(* MultiModelOrchestrator._parse_batch_response (multi_model.py:495-547).  *)
(* A response line is its marker (0 when the line is not "[n] ..." with an *)
(* integer n) and the stripped text after the marker.                      *)
(***************************************************************************)
ResponseLines == [marker : Markers, text : {"", "hu1", "hu2"}]

\* the batches: consecutive entries of the file, as the fast path cuts them
Batches ==
    {[k \in 1..len |-> first + k - 1] :
        first \in 1..(MaxMarker - 1), len \in 1..2}

ParseInit ==
    /\ TaskIdle
    /\ RetryIdle
    /\ FilesIdle
    /\ CliIdle
    /\ PipeIdle
    /\ RecoveryIdle
    /\ CtorIdle
    /\ CadenceIdle
    /\ original_batch \in Batches
    /\ response \in UNION {[1..n -> ResponseLines] : n \in 0..MaxLines}
    /\ index_to_translation = NoTranslations
    /\ translations = <<>>
    /\ parse_pc = "called"

\* multi_model.py:504-526: the lines in order; a line with a marker and a
\* non-empty text sets index_to_translation[marker], a later line for the
\* same marker replacing an earlier one
RECURSIVE ParseLinesFrom(_, _, _)
ParseLinesFrom(lines, k, map) ==
    IF k > Len(lines)
      THEN map
      ELSE LET line == lines[k]
           IN  ParseLinesFrom(lines, k + 1,
                   IF line.marker # 0 /\ line.text # ""
                     THEN [map EXCEPT ![line.marker] = line.text]
                     ELSE map)

ParseLines ==
    /\ parse_pc = "called"
    /\ index_to_translation' = ParseLinesFrom(response, 1, NoTranslations)
    /\ parse_pc' = "parsed"
    /\ UNCHANGED <<progVars, retryVars, filesVars, cliVars, pipeVars, recVars,
                   ctorVars, cadVars, original_batch, response, translations>>

Has(map, n) == n \in DOMAIN map /\ map[n] # ""

\* (mutant) the position in the batch is looked up before the entry's index
MatchEntryPositionFirst(map, position, index) ==
    IF Has(map, position) THEN map[position]
    ELSE IF Has(map, index) THEN map[index]
    ELSE "original"

\* multi_model.py:529-541: the translation of the entry at a 1-based
\* position of the batch: by its index, else by its position, else the
\* entry's own text
MatchEntry(map, position, index) ==
    IF Has(map, index) THEN map[index]
    ELSE IF Has(map, position) THEN map[position]
    ELSE "original"

\* multi_model.py:528-546: one translation per entry of the batch, in order
MatchEntries ==
    /\ parse_pc = "parsed"
    /\ translations' =
           [k \in 1..Len(original_batch) |->
               MatchEntry(index_to_translation, k, original_batch[k])]
    /\ parse_pc' = "returned"
    /\ UNCHANGED <<progVars, retryVars, filesVars, cliVars, pipeVars, recVars,
                   ctorVars, cadVars, original_batch, response,
                   index_to_translation>>

ParseNext == ParseLines \/ MatchEntries

ParseSpec == ParseInit /\ [][ParseNext]_vars


(***************************************************************************)
(* Properties.                                                             *)
(***************************************************************************)
\* translator.py:113-137 in an uninterrupted fresh run whose backend calls all
\* succeed: every entry is appended once by add_translated_entry and once
\* more by the extend of the returned list
UninterruptedOutput(n) ==
    LET t == [k \in 1..n |->
                Plain(TranslatedEntry(ParsedEntry(k),
                                      Translation(ParsedEntry(k).text, 1), 0))]
    IN  t \o t

\* UninterruptedOutput is what an uninterrupted fresh run writes
UninterruptedRunWrites ==
    (plain /\ run = 1 /\ ofile.exists)
        => PlainList(ofile.entries) = UninterruptedOutput(inputN)

\* the list holds one entry per input entry, in ascending index order
OnePerInputEntry(es, n) ==
    Len(es) = n /\ \A k \in 1..n : es[k].index = k

\* C1: the entry list written as final output in batch mode holds exactly N
\* entries, one per input entry, in strictly ascending index order.
C1_BatchOutputOnePerEntry ==
    (cfg.mode = "batch" /\ ofile.exists)
        => OnePerInputEntry(ofile.entries, inputN)

\* C2: a line-by-line or batch run that resumes after an interrupted run (all
\* backend calls succeeding with the same answers) writes the same entry list
\* as an uninterrupted run.
C2_ResumeWritesSameOutput ==
    (plain /\ ofile.exists)
        => PlainList(ofile.entries) = UninterruptedOutput(inputN)

\* the process is between two operations on the progress store
BetweenOperations == pc \in Running \ {"parse", "add_inc", "saving", "except"}

\* every entry of the list was translated by a run of this task
OwnEntries(es) == \A k \in 1..Len(es) : es[k].gen >= 1

\* C3: between operations of a translation task, up to the state whose
\* entries are written as output, current_index = len(translated_entries)
\* and translated_entries are the first current_index input entries, in
\* order.  (The part of the claim on the store in memory; a progress file
\* is a copy of that store.)
C3_IndexCountsEntries ==
    (BetweenOperations /\ OwnEntries(translated_entries))
        => OnePerInputEntry(translated_entries, current_index)

\* C4: after a crash at any point of save_progress the progress file is a
\* complete, fully written state (or absent), never empty or truncated.
C4_CrashLeavesCompleteFile ==
    pc = "crashed" => (~pfile.exists \/ pfile.valid)

\* C5: a signal at any point of the run makes the handler save before the
\* process exits: the progress file then holds the store's current_index,
\* total_entries and every entry of translated_entries.
C5_SignalSavesProgress ==
    [][(pc \in Running /\ pc' = "exited")
         => /\ pfile'.exists /\ pfile'.valid
            /\ pfile'.current_index = current_index
            /\ pfile'.total_entries = total_entries
            /\ pfile'.translated_entries =
                 [k \in 1..Len(translated_entries) |->
                     EntryToDict(translated_entries[k])]]_vars

\* C5 witness: a run was interrupted after entries had been committed and
\* the progress file holds them.
C5_Witness ==
    /\ pc = "exited" /\ pfile.valid
    /\ pfile.current_index >= 2
    /\ Len(pfile.translated_entries) >= 2

\* C6: save_progress followed by load_progress returns True and restores
\* current_index, total_entries and translated_entries field by field,
\* times included.
C6_SaveLoadRoundTrip ==
    LET r == LoadProgress(ProgressData(current_index, total_entries,
                                       translated_entries), 0, 0, <<>>)
    IN  /\ r.ok
        /\ r.current_index = current_index
        /\ r.total_entries = total_entries
        /\ r.translated_entries = translated_entries

\* C7: when the loaded total_entries differs from the parsed entry count the
\* loaded state is discarded (no entries, current_index 0), all N entries are
\* translated from the first, and no loaded entry reaches the output.
C7_MismatchRestartsFromZero ==
    discarded =>
        /\ start_index = 0
        /\ pc = "init" => (translated_entries = <<>> /\ current_index = 0)
        /\ \A k \in 1..Len(translated_entries) : translated_entries[k].gen = run
        /\ ofile.exists =>
             /\ \A k \in 1..Len(ofile.entries) : ofile.entries[k].gen = run
             /\ \A n \in 1..inputN :
                   \E k \in 1..Len(ofile.entries) : ofile.entries[k].index = n

\* C7 witness: a run that discarded mismatching progress has written its
\* output.
C7_Witness ==
    discarded /\ ofile.exists /\ Len(ofile.entries) >= 2

\* the string has the form HH:MM:SS,mmm that _timedelta_to_str writes
\* (progress.py:152-159)
IsSerializedTime(s) ==
    /\ Len(s) = 12
    /\ s[3] = ":" /\ s[6] = ":" /\ s[9] = ","
    /\ \A k \in {1, 2, 4, 5, 7, 8, 10, 11, 12} : IsDigit(s[k])

\* the string is a time: one _parse_timedelta can read or one
\* _timedelta_to_str writes
IsTimeString(s) == TimedeltaParses(s) \/ IsSerializedTime(s)

\* the file is one load_progress has to accept: complete JSON with every
\* required field, the task's paths, and entry data it can read
WellFormed(f) ==
    /\ f.exists /\ f.valid
    /\ RequiredFields \subseteq f.fields
    /\ f.input_file = InputPath /\ f.output_file = OutputPath
    /\ \A k \in 1..Len(f.translated_entries) :
          /\ ~LacksKey(f.translated_entries[k])
          /\ IsTimeString(f.translated_entries[k].start_time)
          /\ IsTimeString(f.translated_entries[k].end_time)

\* C8: load_progress returns False when the file is absent, not valid JSON,
\* lacks a required field, holds malformed entry data or records other
\* paths, and True only otherwise.
C8_LoadRejectsMalformed ==
    (pc = "init" /\ loadResult # "none")
        => (loadResult = "True" <=> WellFormed(pfile))

\* C9: the progress file is removed only once current_index >= total_entries,
\* and a run that ends normally, by exception or by interrupt with
\* current_index < total_entries leaves the progress file on disk.
C9_NoDeleteWhileIncomplete ==
    [][/\ (pfile.exists /\ ~pfile'.exists) => current_index >= total_entries
       /\ (pc \in Running /\ pc' \in {"done", "failed", "exited"}
             /\ current_index < total_entries) => pfile'.exists]_vars

\* C9 witness: a run ended by an exception before all entries were
\* committed and its progress file is on disk.
C9_Witness ==
    /\ pc = "failed" /\ pfile.exists /\ pfile.valid
    /\ pfile.current_index < pfile.total_entries

\* C10: with reassess_overlaps, after a later batch returned a different
\* translation for an overlap entry, the output written holds the reassessed
\* text for that entry and not the earlier one.
C10_OutputHoldsReassessedText ==
    (cfg.mode = "batch" /\ ofile.exists)
        => \A k \in 1..Len(ofile.entries) :
              ofile.entries[k].index \in DOMAIN reassessed
                => ofile.entries[k].text = reassessed[ofile.entries[k].index]


\* the list keeps every entry it holds, text included
KeepsEntries(before, after) ==
    /\ Len(after) >= Len(before)
    /\ \A k \in 1..Len(before) : after[k] = before[k]

\* C11: with reassess_overlaps=False no step that processes a batch response
\* alters an entry already committed, in the scheduler's list or in the
\* progress store, whatever the response holds for the overlap positions.
C11_ReassessOffKeepsCommitted ==
    [][(pc = "batch_proc" /\ ~cfg.batch.reassess_overlaps
          /\ pc' \in {"batch_proc", "add_inc", "batch"})
         => /\ KeepsEntries(local, local')
            /\ KeepsEntries(translated_entries, translated_entries')]_vars

\* C11 witness: with reassess_overlaps=False the response's text for an
\* overlap entry, different from the committed one, has been processed.
C11_Witness ==
    /\ pc = "batch_proc" /\ ~cfg.batch.reassess_overlaps
    /\ batch_start > 0 /\ i >= 1
    /\ LET pos == OverlapStart(batch_start) + 1
       IN  /\ pos <= batch_start
           /\ local[pos].text # Translation(local[pos].original_text, resp[1])
           /\ local[pos].index = start_index + pos

\* C12: after translate_batch raised, every per-entry call is for a new entry
\* of the batch, in order, and commits that entry with a translation or with
\* its original text; the scheduler then goes on to the next batch after as
\* many calls as the batch has new entries, and never raises.
C12_BatchFailurePolicy ==
    [][pc = "batch_fb" =>
         LET slice == Slice(inputN, start_index)
             entry == slice[batch_start + i + 1]
             last  == local'[Len(local')]
         IN  /\ pc' \notin {"except", "failed"}
             /\ i' = i + 1 =>
                  /\ pc' = "add_inc"
                  /\ batch_start + i < BatchEnd(batch_start, Len(slice))
                  /\ local' = Append(local, last)
                  /\ translated_entries' = Append(translated_entries, last)
                  /\ last.index = entry.index
                  /\ last.text \in {Translation(entry.text, 1), entry.text}
             /\ pc' = "batch" =>
                  /\ i = BatchEnd(batch_start, Len(slice)) - batch_start
                  /\ batch_start' = BatchEnd(batch_start, Len(slice))
                  /\ local' = local]_vars

\* C12 witness: a batch with an overlap entry failed, its new entry was
\* committed with the original text and the scheduler went on.
C12_Witness ==
    /\ pc = "batch" /\ resp = <<>> /\ cfg.batch.overlap_size > 0
    /\ batch_start = 3 /\ Len(local) = 3
    /\ local[3].text = ParsedEntry(local[3].index).text
    /\ local[2].text # ParsedEntry(local[2].index).text

\* C13: in line-by-line mode every iteration commits its entry, with a
\* translation or, when every backend attempt failed, with its original
\* text, and goes on to the next entry; no iteration raises, and when the
\* loop returns every entry it was given has been committed, in order.
C13_LineByLineDegradesGracefully ==
    [][pc = "line-by-line" =>
         LET slice == Slice(inputN, start_index)
             last  == local'[Len(local')]
         IN  /\ pc' \notin {"except", "failed"}
             /\ i' = i + 1 =>
                  /\ pc' = "add_inc" /\ ret' = "line-by-line"
                  /\ local' = Append(local, last)
                  /\ last.index = slice[i + 1].index
                  /\ last.text \in {Translation(slice[i + 1].text, 1),
                                    slice[i + 1].text}
             /\ pc' = "write" =>
                  /\ Len(local) = Len(slice)
                  /\ \A k \in 1..Len(slice) : local[k].index = slice[k].index]_vars

\* C13 witness: a line-by-line run wrote its output after the backend had
\* failed for one entry (kept with its original text) and translated another.
C13_Witness ==
    /\ cfg.mode = "line-by-line" /\ ofile.exists
    /\ \E k, j \in 1..Len(ofile.entries) :
          /\ ofile.entries[k].text = ParsedEntry(ofile.entries[k].index).text
          /\ ofile.entries[k].gen = run
          /\ j > k
          /\ ofile.entries[j].text # ParsedEntry(ofile.entries[j].index).text
          /\ ofile.entries[j].index > ofile.entries[k].index

\* C20: translate_with_retry calls translate_text at most max_retries times;
\* it returns the result of the first call that succeeds and calls no more;
\* when all max_retries calls have failed it raises a failure that carries
\* the error of the last call.
C20_RetryBounded ==
    /\ Len(calls) <= max_retries
    /\ \A k \in 1..(Len(calls) - 1) : calls[k].kind \in Retryable
    /\ retry_pc = "returned" =>
          /\ calls # <<>>
          /\ calls[Len(calls)].kind = "ok"
          /\ outcome = calls[Len(calls)]
    /\ (retry_pc # "loop" /\ Len(calls) = max_retries
          /\ calls[max_retries].kind # "ok") =>
          /\ retry_pc = "raised"
          /\ outcome.carries = calls[max_retries]
    /\ retry_pc = "loop" => Len(calls) = attempt /\ attempt < max_retries

\* C20 witness: all max_retries calls failed, with different errors, and the
\* failure raised carries the last one.
C20_Witness ==
    /\ retry_pc = "raised" /\ max_retries >= 3
    /\ Len(calls) = max_retries
    /\ calls[1].kind # calls[max_retries].kind
    /\ outcome.kind = "ValueError"
    /\ outcome.carries.attempt = max_retries

\* C18: when several files are processed, by main or by batch_translate,
\* translate_file has been called for every file when the processing ends,
\* whatever call raised.
C18_EveryFileAttempted ==
    files_pc \in {"completed", "error"} => Len(attempted) = files

\* C19: in every scheduling pass of the batch scheduler the batch_size and
\* overlap_size it uses satisfy batch_size >= 1 and 0 <= overlap_size <
\* batch_size, however the configuration was produced.
C19_SchedulerSizesValid ==
    cli_pc = "scheduling" =>
        /\ cfg.batch.batch_size >= 1
        /\ 0 <= cfg.batch.overlap_size
        /\ cfg.batch.overlap_size < cfg.batch.batch_size

\* C14: with validation and dialogue refinement disabled and translation
\* enabled, for any number of entries and any setting of context analysis,
\* after translate_with_multimodel completes every entry in the result has
\* step3_validation and step4_dialogue recorded as skipped with reason
\* "disabled", and its final_result.text equals its step2_translation.text.
C14_DisabledStagesRecordedSkipped ==
    ( /\ pipe_pc = "done"
      /\ pipeline.run_translation
      /\ ~pipeline.run_validation
      /\ ~pipeline.run_dialogue_refinement )
    => \A e \in 1..entriesN :
         srt_results.entries[e].present =>
           /\ srt_results.entries[e].step3_validation = Skipped("disabled")
           /\ srt_results.entries[e].step4_dialogue = Skipped("disabled")
           /\ srt_results.entries[e].final_result.text
                = srt_results.entries[e].step2_translation.text

\* C15: while no write has failed, when the backend call of a stage is in
\* progress for an entry, the record (result or skip reason) of every
\* earlier stage of that entry is in the result file.
C15_StageRecordedBeforeNextCall ==
    (~save_failed /\ pipe_pc \in {"step2_call", "step3_call", "step4_call"})
    => \A stage \in Stages :
         srt_results.entries[entry_pos][stage].state # "absent" =>
           /\ result_file.exists
           /\ result_file.content.entries[entry_pos][stage]
                = srt_results.entries[entry_pos][stage]

\* C16: a stage sub-record of an entry that is in the result file is still
\* in the result file after every step, including the steps of a new run.
C16_StageRecordsNeverRemoved ==
    [][\A e \in 1..MaxPipeN, stage \in Stages :
          ( /\ result_file.exists
            /\ result_file.content.entries[e][stage].state # "absent" )
          => ( /\ result_file'.exists
               /\ result_file'.content.entries[e][stage].state # "absent" )
      ]_vars

\* C17: after a write of the result file has failed, the pipeline is not
\* processing the file any further.
C17_WriteFailureStopsProcessing ==
    save_failed => pipe_pc \notin Processing

\* what translate_with_fallback did, in order
FallbackOps == SelectSeq(ops, LAMBDA o : o.phase = "fallback")

\* C21: when translate_with_fallback has ended, the models it ran the retry
\* operation with are the primary and then the fallback models in list
\* order, it stopped at the first one that succeeded, and it raised only if
\* the retry operation has been run with every model of the list and has
\* failed with each.
C21_FallbackTriesEveryModel ==
    (site = "line-by-line" /\ rec_pc = "committed" /\ Len(FallbackOps) > 0)
    => /\ \A j, k \in 1..Len(FallbackOps) :
            j < k => /\ FallbackOps[j].model < FallbackOps[k].model
                     /\ FallbackOps[j].result # "returned"
       /\ committed = "original" =>
            \A m \in 0..fallback_models :
               \E j \in 1..Len(FallbackOps) :
                  FallbackOps[j] = Op("fallback", "retry", m, "raised")

\* C27: an entry is committed with its original text only after the retries
\* on the primary model have failed and then an attempt with the fallback
\* models has been made and has failed, in line-by-line mode and in the
\* batch scheduler's per-entry fallback alike.
C27_RecoveryOrder ==
    (rec_pc = "committed" /\ committed = "original")
    => /\ ops[1] = Op("primary", "retry", 0, "raised")
       /\ \E j \in 2..Len(ops) :
             ops[j].phase = "fallback" /\ ops[j].op = "retry"
                /\ ops[j].result = "raised"

\* C22: with the backend "marian", a constructed SubtitleTranslator has
\* config.multi_model.enabled False, and translate_file does not run the
\* multi-model pipeline.
C22_MarianDisablesMultiModel ==
    (translation_backend = "marian"
       /\ ctor_pc \in {"constructed", "dispatched"})
    => cfg.mode # "multi-model" /\ dispatched # "multi-model"

\* the number of entries handed to _translate_entries_batch in this run
SchedN == Len(Slice(inputN, start_index))

\* C23: the j-th pass of the scheduler has batch_start = (j - 1) *
\* batch_size < N, overlap_start = 0 for the first pass and
\* max(0, batch_start - overlap_size) otherwise, batch_end =
\* min(batch_start + batch_size, N), and its request holds exactly the
\* entries at the positions overlap_start .. batch_end - 1, at most
\* batch_size + overlap_size of them; when the scheduler has returned every
\* position is a new entry of exactly one pass.
C23_BatchRequestsCoverRanges ==
    LET bs == cfg.batch.batch_size
        ov == cfg.batch.overlap_size
    IN  /\ \A j \in 1..Len(requests) :
              LET bstart == (j - 1) * bs
                  ostart == IF j = 1 THEN 0
                            ELSE IF bstart - ov > 0 THEN bstart - ov ELSE 0
                  bend   == IF bstart + bs < SchedN THEN bstart + bs
                            ELSE SchedN
              IN  /\ bstart < SchedN
                  /\ requests[j].batch_start = bstart
                  /\ requests[j].overlap_start = ostart
                  /\ requests[j].batch_end = bend
                  /\ requests[j].full_batch =
                         [k \in 1..(bend - ostart) |->
                             start_index + ostart + k]
                  /\ Len(requests[j].full_batch) <= bs + ov
        /\ (cfg.mode = "batch" /\ pc = "write") =>
              \A pos \in 0..(SchedN - 1) :
                 Cardinality({j \in 1..Len(requests) :
                                 /\ requests[j].batch_start <= pos
                                 /\ pos < requests[j].batch_end}) = 1

C23_Witness ==
    /\ pc = "write"
    /\ Len(requests) = 3
    /\ cfg.batch.overlap_size = 1
    /\ start_index = 0

\* the scheduler ran over the five entries 1..5 with batch_size 2 and
\* overlap_size 1 and has returned
FiveEntriesExample ==
    /\ inputN = 5
    /\ start_index = 0
    /\ cfg.batch.batch_size = 2
    /\ cfg.batch.overlap_size = 1
    /\ pc = "write"

IndexSeq(list) == [k \in 1..Len(list) |-> list[k].index]

\* C24 (as claimed): for five entries, batch_size 2 and overlap_size 1 the
\* requests are [1,2], [2,3], [4,5] with batch_start 0,2,4 and
\* overlap_start 0,1,4, and the committed order is [1,2,3,4,5].
C24_ExampleAsClaimed ==
    FiveEntriesExample =>
      /\ [j \in 1..Len(requests) |-> requests[j].full_batch]
           = << <<1, 2>>, <<2, 3>>, <<4, 5>> >>
      /\ [j \in 1..Len(requests) |-> requests[j].batch_start] = <<0, 2, 4>>
      /\ [j \in 1..Len(requests) |-> requests[j].overlap_start] = <<0, 1, 4>>
      /\ IndexSeq(local) = <<1, 2, 3, 4, 5>>

\* C24 (amended): for five entries, batch_size 2 and overlap_size 1 the
\* requests are [1,2], [2,3,4], [4,5] with batch_start 0,2,4 and
\* overlap_start 0,1,3, and the committed order is [1,2,3,4,5].
C24_FiveEntriesExample ==
    FiveEntriesExample =>
      /\ [j \in 1..Len(requests) |-> requests[j].full_batch]
           = << <<1, 2>>, <<2, 3, 4>>, <<4, 5>> >>
      /\ [j \in 1..Len(requests) |-> requests[j].batch_start] = <<0, 2, 4>>
      /\ [j \in 1..Len(requests) |-> requests[j].overlap_start] = <<0, 1, 3>>
      /\ IndexSeq(local) = <<1, 2, 3, 4, 5>>

C24_Witness ==
    FiveEntriesExample /\ Len(requests) = 3 /\ Len(local) = 5

\* C25: during one pass of _translate_entries_batch the list it returns
\* holds the entries start_index + 1, start_index + 2, ... once each and in
\* this order, the entries handed to progress.add_translated_entry are the
\* same in the same order, and when the scheduler returns every entry it
\* was given is in the list.
C25_EachEntryCommittedOnce ==
    ( /\ cfg.mode = "batch"
      /\ pc \in {"batch", "batch_proc", "batch_fb", "add_inc", "saving",
                  "write"} )
    => /\ \A k \in 1..Len(local) : local[k].index = start_index + k
       /\ pc # "write" =>
            /\ Len(translated_entries) >= Len(local)
            /\ \A k \in 1..Len(local) :
                  translated_entries[Len(translated_entries) - Len(local) + k]
                      .index = local[k].index
       /\ pc = "write" => Len(local) = SchedN

C25_Witness ==
    /\ pc = "write"
    /\ Len(local) = 5
    /\ Len(requests) = 3
    /\ cfg.batch.overlap_size = 1
    /\ \E k \in 1..Len(local) : local[k].original_text = NoText
    /\ \E k \in 1..Len(local) : local[k].original_text # NoText

\* C26: a call of add_translated_entry has appended one entry and increased
\* current_index by one, and it has called save_progress if and only if
\* the new current_index is a multiple of 5 or more than 30 seconds had
\* passed since the last save_progress.
C26_SaveCadence ==
    last_call.made =>
      /\ entry_count = cur_index
      /\ last_call.index = cur_index
      /\ last_call.saved <=>
           (last_call.index % 5 = 0 \/ last_call.since_save > 30)

\* C28: in the per-entry pipeline a bypassed stage of an entry is recorded
\* as skipped with a reason: every skipped record carries "disabled" when
\* its stage is turned off and "high_confidence" when validation was
\* skipped for a confident translation, and an entry that went through all
\* stages has a skipped record for each stage that is turned off.
C28_SkipRecordsCarryReason ==
    srt_results.mode = "pipeline" =>
      \A e \in 1..MaxPipeN :
        LET r == srt_results.entries[e]
            Bypass(record, enabled) ==
                /\ record.state = "skipped" =>
                     record.reason = IF enabled THEN "high_confidence"
                                                ELSE "disabled"
                /\ (r.final_result.state = "recorded" /\ ~enabled) =>
                     record.state = "skipped"
        IN  r.present =>
              /\ Bypass(r.step1_context, pipeline.run_context_analysis)
              /\ r.step1_context.reason # "high_confidence"
              /\ Bypass(r.step2_translation, pipeline.run_translation)
              /\ r.step2_translation.reason # "high_confidence"
              /\ Bypass(r.step3_validation, pipeline.run_validation)
              /\ r.step3_validation.reason = "high_confidence" =>
                   pipeline.skip_validation_for_high_confidence
              /\ Bypass(r.step4_dialogue, pipeline.run_dialogue_refinement)
              /\ r.step4_dialogue.reason # "high_confidence"

\* C29: the validation stage changes the text of an entry only when
\* validation is enabled, it is not skipped for high confidence (the skip
\* flag set and a translation confidence above 0.8), and the validator gave
\* a non-empty suggestion with a confidence below 0.7; in every other case
\* the text of the translation stage goes on unchanged, and the stage always
\* ends with its record written and the pipeline at the dialogue stage (or
\* interrupted), never with an exception.
C29_ValidationStep ==
    pipe_pc \in {"step3", "step3_call"} =>
      /\ pipe_pc' \in {"step3_call", "step4", "interrupted"}
      /\ pipe_pc' # "step4" => translation_result' = translation_result
      /\ pipe_pc' = "step4" =>
           /\ srt_results'.entries[entry_pos].step3_validation.state
                \in {"skipped", "recorded"}
           /\ translation_result'.text # translation_result.text =>
                /\ pipeline.run_validation
                /\ ~(/\ pipeline.skip_validation_for_high_confidence
                     /\ translation_result.confidence > 8)
                /\ translation_result'.text = "validated"
                /\ translation_result'.confidence < 7
                /\ srt_results'.entries[entry_pos].step3_validation.text
                     = "validated"

FastPositions == {"fast_batch", "fast_call", "fast_fallback"}

LoopPositions ==
    {"context_call", "next_entry", "step2_call", "step3", "step3_call",
     "step4", "step4_call"}

\* multi_model.py:378-388: the entries whose texts the request of the
\* current batch holds, entries[first:end]
FastRequest == [first |-> entry_pos, end |-> fast_end]

\* C30 as stated: the per-entry loop is bypassed exactly when translation
\* is the only enabled stage and there are more than 5 entries, and the
\* bypass cuts its requests as the batch scheduler does: batch_size new
\* entries (10 by default) preceded by overlap_size entries of overlap (2
\* by default).
C30_FastPathUsesBatchScheduler ==
    /\ pipe_pc \in FastPositions =>
         (OnlyTranslation /\ entriesN > 5)
    /\ pipe_pc \in LoopPositions =>
         ~(OnlyTranslation /\ entriesN > 5)
    /\ pipe_pc = "fast_call" =>
         /\ FastRequest.end = Min(entry_pos + DefaultBatchSize, entriesN)
         /\ FastRequest.first =
              IF entry_pos > 0
                THEN Max(0, entry_pos - DefaultOverlapSize) ELSE 0

\* C30 (amended): the per-entry loop is bypassed exactly when translation
\* is the only enabled stage and there are more than 5 entries; the bypass
\* translates the whole entry set in consecutive batches of 20 entries,
\* each starting where the one before ended, with no overlap, every entry
\* handed to the progress once.
C30_FastPathOwnBatches ==
    /\ pipe_pc \in FastPositions =>
         /\ OnlyTranslation /\ entriesN > 5
         /\ srt_results.mode = "batch_fast"
         /\ added = entry_pos
    /\ pipe_pc \in LoopPositions =>
         /\ ~(OnlyTranslation /\ entriesN > 5)
         /\ srt_results.mode = "pipeline"
    /\ pipe_pc = "fast_batch" =>
         entry_pos % 20 = 0 \/ entry_pos = entriesN
    /\ pipe_pc = "fast_call" =>
         /\ entry_pos % 20 = 0
         /\ FastRequest.first = added
         /\ FastRequest.end = Min(FastRequest.first + 20, entriesN)
    /\ pipe_pc \in {"fast_call", "fast_fallback"} =>
         /\ entry_pos < fast_end
         /\ fast_end = Min((entry_pos \div 20) * 20 + 20, entriesN)
    /\ (pipe_pc = "done" /\ srt_results.mode = "batch_fast") =>
         added = entriesN

C30_Witness ==
    /\ pipe_pc = "fast_call"
    /\ entry_pos = 20
    /\ fast_end = entriesN

\* the non-empty texts the response gives under a marker
TextsFor(n) ==
    {response[k].text : k \in {j \in 1..Len(response) :
                                  response[j].marker = n
                                  /\ response[j].text # ""}}

\* C31: _parse_batch_response returns one translation per entry of the
\* batch, in batch order: the text of a response line marked with the
\* entry's index when there is one with a non-empty text; the text of a line
\* marked with the entry's 1-based position in the batch only when there is
\* none; and the entry's original text only when neither exists.
C31_IndexBeforePosition ==
    parse_pc = "returned" =>
      /\ Len(translations) = Len(original_batch)
      /\ \A k \in 1..Len(original_batch) :
           IF TextsFor(original_batch[k]) # {}
             THEN translations[k] \in TextsFor(original_batch[k])
           ELSE IF TextsFor(k) # {}
             THEN translations[k] \in TextsFor(k)
           ELSE translations[k] = "original"

C31_Witness ==
    /\ parse_pc = "returned"
    /\ \E k \in 1..Len(original_batch) :
         /\ TextsFor(original_batch[k]) = {"hu2"}
         /\ TextsFor(k) = {"hu1"}
         /\ translations[k] = "hu2"

\* C32: for each file the context model is queried at most once, the query
\* comes before the translation stage of any entry, and no step of the
\* entry stages (or of the fast path) changes the story context.
C32_ContextStep ==
    /\ context_queries' <= 1
    /\ context_queries' > context_queries =>
         /\ entry_pos = 0
         /\ added = 0
         /\ \A e \in 1..MaxEntries : ~srt_results.entries[e].present
    /\ pipe_pc \in {"next_entry", "step2_call", "step3", "step3_call",
                    "step4", "step4_call", "fast_batch", "fast_call",
                    "fast_fallback"} =>
         story_context' = story_context

C32_ContextAnalysedOnce == [][C32_ContextStep]_vars

C32_Witness ==
    /\ context_queries = 1
    /\ story_context = "analyzed"
    /\ pipe_pc = "done"
    /\ srt_results.entries[entriesN].final_result.state = "recorded"

\* C33: while translate_file has not loaded the existing progress - the
\* input is being parsed, or parsing has failed (no input, no valid entry)
\* and the failure is being handled - no step changes a progress file that
\* an earlier run left on disk.
C33_ParseStep ==
    (/\ pfile.exists
     /\ pfile \notin ForeignFiles \cup {TruncatedFile}
     /\ run > 1
     /\ pc = "parse" \/ (pc = "except" /\ inputN = 0)) =>
        pfile' = pfile

C33_EarlierProgressKeptBeforeLoad == [][C33_ParseStep]_vars

\* C36: when load_progress returns False, the store (current_index,
\* total_entries, translated_entries) is as it was before the call.
C36_LoadStep ==
    (pc = "resume" /\ loadResult' = "False") =>
        /\ current_index' = current_index
        /\ total_entries' = total_entries
        /\ translated_entries' = translated_entries

C36_FailedLoadLeavesStore == [][C36_LoadStep]_vars

\* C34: a signal delivered inside add_translated_entry (after the append,
\* before the increment) or inside save_progress (the file opened for
\* writing) leaves a progress file that is complete JSON and whose
\* current_index is the number of its translated entries.
C34_SignalStep ==
    (pc \in {"add_inc", "saving"} /\ pc' = "exited") =>
        /\ pfile'.exists
        /\ pfile'.valid
        /\ pfile'.current_index = Len(pfile'.translated_entries)

C34_SignalInsideAddOrSave == [][C34_SignalStep]_vars

\* C35: after initialize_translation, in every mode and in resumed runs,
\* 0 <= current_index <= total_entries holds in the store, and every
\* complete progress file on disk records such a pair.
C35_IndexWithinTotal ==
    /\ pc \in {"line-by-line", "batch", "batch_proc", "batch_fb",
               "multi-model", "whole-file", "add_inc", "write", "cleanup"} =>
         (0 <= current_index /\ current_index <= total_entries)
    /\ (pfile.exists /\ pfile.valid) =>
         (0 <= pfile.current_index
            /\ pfile.current_index <= pfile.total_entries)

\* C37: whatever batch_size reaches the batch scheduler (defaults, YAML
\* file, command line), every pass of its loop moves batch_start strictly
\* forward, and the loop ends after exactly ceil(N / batch_size) passes.
C37_SchedulerStep ==
    cli_pc = "scheduling" =>
      /\ passes' # passes => batch_start' > batch_start
      /\ cli_pc' = "done" =>
           /\ cfg.batch.batch_size >= 1
           /\ passes * cfg.batch.batch_size >= inputN
           /\ (passes - 1) * cfg.batch.batch_size < inputN

C37_SchedulerTerminates == [][C37_SchedulerStep]_vars

\* the positions of translate_file once the translation has started
Started ==
    {"line-by-line", "batch", "batch_proc", "batch_fb", "multi-model",
     "whole-file", "add_inc", "saving", "write", "cleanup"}

\* C38: the progress file is removed only by the cleanup that follows a
\* finished write of the output file with the task's entries, and however a
\* run ends once its translation has started (return, exception, signal,
\* crash), a progress file or a completely written output file is on disk.
C38_CleanupStep ==
    /\ (pfile.exists /\ ~pfile'.exists) =>
         /\ pc = "cleanup"
         /\ ofile.exists
         /\ ofile.entries = translated_entries
    /\ ((pc \in Started \/ (pc = "except" /\ inputN > 0))
          /\ pc' \in Terminal) =>
         (pfile'.exists \/ ofile'.exists)

C38_CleanupAfterOutput == [][C38_CleanupStep]_vars

C38_Witness ==
    /\ pc = "done"
    /\ run = 1
    /\ ~pfile.exists
    /\ ofile.exists
    /\ Len(ofile.entries) >= inputN

\* C39: at every point of a fresh line-by-line or batch run after its
\* initial progress file was created, the progress file on disk records a
\* current_index that the current_index in memory exceeds by at most 4.
C39_DurabilityBound ==
    (/\ plain
     /\ run = 1
     /\ pc \in Started
     /\ ~(pc = "saving" /\ current_index = 0)) =>
        /\ pfile.exists
        /\ pfile.valid
        /\ current_index - pfile.current_index <= 4

\* C40: a results file that says processing_complete holds a record with
\* a final_result for every entry of the file, in the per-entry pipeline
\* and in the fast path, also after a failed fast batch was translated
\* entry by entry.
C40_CompleteMeansAllFinal ==
    (result_file.exists /\ result_file.content.processing_complete) =>
        \A e \in 1..entriesN :
            /\ result_file.content.entries[e].present
            /\ result_file.content.entries[e].final_result.state = "recorded"

=============================================================================
